---------------------------- MODULE Spec2Model ----------------------------
(***************************************************************************)
(* dexscreener-rs: the tolerant deserialization layer (src/src/models.rs)  *)
(* and the request dispatcher (src/src/client.rs).                         *)
(*                                                                         *)
(* Text is a sequence of one-character strings.  A JSON value is a record  *)
(* [t, s]: t is its shape, s the characters of a number token or of a      *)
(* string's content.  An f64 is [cls, neg, mant, exp, ulp]: a finite value *)
(* is the f64 ulp places above the one nearest to the decimal              *)
(* (-1)^neg * mant * 10^exp, mant free of trailing zeros.  ulp is 0 for    *)
(* what f64::from_str returns, and -1, 0 or 1 for what serde_json makes of *)
(* a number token, which it rounds twice.                                  *)
(***************************************************************************)
EXTENDS Integers, Sequences, FiniteSets, TLC

VARIABLES
    pc,        \* "input" before the decode, "done" after it
    decoder,   \* the decode applied: a field's (see DecodeField) or "TokenPair"
    input,     \* the JSON value of the field, or the document of the pair
    result,    \* what the decode returned
    budget,    \* replacements still allowed on the document
    base_url,  \* the client's base URL
    calls,     \* the calls made on the client, by number
    sent       \* the URLs of the GETs issued, in order, by call

vars == <<pc, decoder, input, result, budget, base_url, calls, sent>>

(***************************************************************************)
(* Bounds of the checked input space.                                      *)
(***************************************************************************)
\* longest text enumerated over Alphabet
MaxLen == 5

\* characters the enumerated texts are built from
Alphabet == {"0", "1", "9", ".", "e", "-", "x"}

RECURSIVE TextsOfLen(_)
TextsOfLen(n) ==
    IF n = 0 THEN {<< >>}
    ELSE {Append(t, c) : t \in TextsOfLen(n - 1), c \in Alphabet}

Texts == UNION {TextsOfLen(n) : n \in 0..MaxLen}

\* texts outside the alphabet that exercise one branch each of the parsers
SampleTexts ==
    { <<"n","a","n">>, <<"N","a","N">>, <<"i","n","f">>, <<"-","i","n","f">>,
      <<"i","n","f","i","n","i","t","y">>, <<"+","1">>, <<"+">>, <<"1","E","1">>,
      <<" ","1">>, <<"1","e","+","1">>, <<"1","2",".","5">>, <<"6","7","8",".","9","0">>,
      <<"1","2","3",".","4","5">> }

(***************************************************************************)
(* Characters and digit runs.                                              *)
(***************************************************************************)
Digits == {"0", "1", "2", "3", "4", "5", "6", "7", "8", "9"}

IsDigit(c) == c \in Digits

DigitVal(c) ==
    CASE c = "0" -> 0 [] c = "1" -> 1 [] c = "2" -> 2 [] c = "3" -> 3
      [] c = "4" -> 4 [] c = "5" -> 5 [] c = "6" -> 6 [] c = "7" -> 7
      [] c = "8" -> 8 [] c = "9" -> 9

\* ASCII lower-casing of the letters the parsers compare case-insensitively
LowerChar(c) ==
    CASE c = "N" -> "n" [] c = "A" -> "a" [] c = "I" -> "i" [] c = "F" -> "f"
      [] c = "T" -> "t" [] c = "Y" -> "y" [] c = "E" -> "e" [] c = "Z" -> "z"
      [] OTHER -> c

Lower(s) == [i \in 1..Len(s) |-> LowerChar(s[i])]

\* the first position at or after i that holds no digit
RECURSIVE SkipDigits(_, _)
SkipDigits(s, i) ==
    IF i <= Len(s) /\ IsDigit(s[i]) THEN SkipDigits(s, i + 1) ELSE i

\* the number written by the digits s[i..j-1] (0 for an empty run)
RECURSIVE DigitsValue(_, _, _)
DigitsValue(s, i, j) ==
    IF j <= i THEN 0 ELSE DigitsValue(s, i, j - 1) * 10 + DigitVal(s[j - 1])

\* s[i..j-1] holds only zeros
AllZero(s, i, j) == \A k \in i..(j - 1) : s[k] = "0"

RECURSIVE Pow10(_)
Pow10(n) == IF n = 0 THEN 1 ELSE 10 * Pow10(n - 1)

RECURSIVE NumDigits(_)
NumDigits(m) == IF m < 10 THEN 1 ELSE 1 + NumDigits(m \div 10)

DigitChar(d) ==
    CASE d = 0 -> "0" [] d = 1 -> "1" [] d = 2 -> "2" [] d = 3 -> "3" [] d = 4 -> "4"
      [] d = 5 -> "5" [] d = 6 -> "6" [] d = 7 -> "7" [] d = 8 -> "8" [] d = 9 -> "9"

\* n >= 0 in exactly w decimal digits
RECURSIVE Padded(_, _)
Padded(n, w) == IF w = 0 THEN << >> ELSE Append(Padded(n \div 10, w - 1), DigitChar(n % 10))

\* n >= 0 in decimal, without leading zeros
Decimal(n) == Padded(n, NumDigits(n))

(***************************************************************************)
(* Natural numbers beyond 32 bits, for the 53-bit significands of f64 and  *)
(* the powers of five they are scaled by: little-endian sequences of       *)
(* 14-bit limbs without high zero limbs, << >> being 0.                    *)
(***************************************************************************)
LimbBase == 2^14

Max(a, b) == IF a >= b THEN a ELSE b

Min(a, b) == IF a <= b THEN a ELSE b

RECURSIVE BNat(_)
BNat(n) == IF n = 0 THEN << >> ELSE <<n % LimbBase>> \o BNat(n \div LimbBase)

\* the highest position of a that holds a limb other than 0
Top(a) ==
    IF \A i \in DOMAIN a : a[i] = 0 THEN 0
    ELSE CHOOSE i \in DOMAIN a : a[i] # 0 /\ \A j \in (i + 1)..Len(a) : a[j] = 0

BTrim(a) == SubSeq(a, 1, Top(a))

Limb(a, i) == IF i \in DOMAIN a THEN a[i] ELSE 0

\* a carry comes into position i from the nearest position below it whose
\* limbs do not add up to LimbBase - 1
RECURSIVE CarryInto(_, _, _)
CarryInto(a, b, i) ==
    IF i = 1 THEN FALSE
    ELSE IF Limb(a, i - 1) + Limb(b, i - 1) = LimbBase - 1 THEN CarryInto(a, b, i - 1)
    ELSE Limb(a, i - 1) + Limb(b, i - 1) >= LimbBase

BAdd(a, b) ==
    IF a = << >> THEN b
    ELSE IF b = << >> THEN a
    ELSE BTrim([i \in 1..(Max(Len(a), Len(b)) + 1) |->
              (Limb(a, i) + Limb(b, i) + (IF CarryInto(a, b, i) THEN 1 ELSE 0)) % LimbBase])

\* and a borrow from the nearest position below it whose limbs differ
RECURSIVE BorrowInto(_, _, _)
BorrowInto(a, b, i) ==
    IF i = 1 THEN FALSE
    ELSE IF Limb(a, i - 1) = Limb(b, i - 1) THEN BorrowInto(a, b, i - 1)
    ELSE Limb(a, i - 1) < Limb(b, i - 1)

\* a - b for a >= b
BSub(a, b) ==
    IF b = << >> THEN a
    ELSE BTrim([i \in 1..Len(a) |->
              (a[i] - Limb(b, i) - (IF BorrowInto(a, b, i) THEN 1 ELSE 0)) % LimbBase])

\* the highest position where a and b of one length differ
TopDiff(a, b) ==
    CHOOSE i \in DOMAIN a : a[i] # b[i] /\ \A j \in (i + 1)..Len(a) : a[j] = b[j]

\* -1, 0 or 1 as a is below, at or above b
BCmp(a, b) ==
    IF Len(a) # Len(b) THEN (IF Len(a) < Len(b) THEN -1 ELSE 1)
    ELSE IF a = b THEN 0
    ELSE IF a[TopDiff(a, b)] < b[TopDiff(a, b)] THEN -1 ELSE 1

\* a * k for 0 <= k <= 2^14: the low halves of the limbs' products, and
\* their high halves one position up
BMulSmall(a, k) ==
    IF a = << >> \/ k = 0 THEN << >>
    ELSE BAdd([i \in 1..Len(a) |-> (a[i] * k) % LimbBase],
         <<0>> \o [i \in 1..Len(a) |-> (a[i] * k) \div LimbBase])

\* s[i] + .. + s[j]
RECURSIVE SumBetween(_, _, _)
SumBetween(s, i, j) ==
    IF i > j THEN 0
    ELSE IF i = j THEN s[i]
    ELSE SumBetween(s, i, (i + j) \div 2) + SumBetween(s, (i + j) \div 2 + 1, j)

\* the products a[i] * b[j] of weight LimbBase^(k-1), i + j = k + 1
Products(a, b, k) ==
    [i \in 1..Len(a) |-> IF k + 1 - i \in 1..Len(b) THEN a[i] * b[k + 1 - i] ELSE 0]

\* the sum of their low halves, and of the high halves of the weight below
ColumnLow(p) == SumBetween([i \in 1..Len(p) |-> p[i] % LimbBase], 1, Len(p))

ColumnHigh(p) == SumBetween([i \in 1..Len(p) |-> p[i] \div LimbBase], 1, Len(p))

Column(a, b, k) == ColumnLow(Products(a, b, k)) + ColumnHigh(Products(a, b, k - 1))

Columns(a, b) == [k \in 1..(Len(a) + Len(b)) |-> Column(a, b, k)]

Carried(c) ==
    BAdd([k \in 1..Len(c) |-> c[k] % LimbBase],
         <<0>> \o [k \in 1..Len(c) |-> c[k] \div LimbBase])

BMul(a, b) == IF a = << >> \/ b = << >> THEN << >> ELSE Carried(Columns(a, b))

ShlBits(a, r) ==
    BTrim([i \in 1..(Len(a) + 1) |->
              ((Limb(a, i) * 2^r) % LimbBase) + ((Limb(a, i - 1) * 2^r) \div LimbBase)])

\* a * 2^n
BShl(a, n) ==
    IF a = << >> THEN << >> ELSE [i \in 1..(n \div 14) |-> 0] \o ShlBits(a, n % 14)

ShrBits(a, r) ==
    BTrim([i \in 1..Len(a) |-> (a[i] \div 2^r) + (Limb(a, i + 1) % 2^r) * 2^(14 - r)])

\* a \div 2^n
BShr(a, n) ==
    IF n \div 14 >= Len(a) THEN << >>
    ELSE ShrBits(SubSeq(a, n \div 14 + 1, Len(a)), n % 14)

RECURSIVE BitLen(_)
BitLen(n) == IF n = 0 THEN 0 ELSE 1 + BitLen(n \div 2)

\* the number of bits of a
BBitLen(a) == IF a = << >> THEN 0 ELSE 14 * (Len(a) - 1) + BitLen(a[Len(a)])

BOdd(a) == a # << >> /\ a[1] % 2 = 1

\* 5^e, by squaring
RECURSIVE BPow5(_)
BPow5(e) ==
    IF e < 7 THEN BNat(5^e)
    ELSE IF e % 2 = 1 THEN BMulSmall(BPow5(e - 1), 5)
    ELSE BMul(BPow5(e \div 2), BPow5(e \div 2))

(***************************************************************************)
(* Long division, limb by limb.  The divisor d has a top limb of at least  *)
(* 2^13; t is d at the weight of the quotient's limb, and r, what is left  *)
(* of the dividend, is below t * 2^14.  The two top limbs of r over the    *)
(* top limb of d estimate the quotient's limb, at most two too high.       *)
(***************************************************************************)
Estimate(r, t) ==
    Min(LimbBase - 1, (Limb(r, Len(t) + 1) * LimbBase + Limb(r, Len(t))) \div t[Len(t)])

Fits(r, t, g) == BCmp(BMulSmall(t, g), r) <= 0

Corrected(r, t, g) ==
    IF g = 0 \/ Fits(r, t, g) THEN g ELSE IF Fits(r, t, g - 1) THEN g - 1 ELSE g - 2

Take(prev, t, g) == [q |-> <<g>> \o prev.q, r |-> BSub(prev.r, BMulSmall(t, g))]

DivLimb(prev, t) ==
    IF prev.r = << >> THEN [q |-> <<0>> \o prev.q, r |-> << >>]
    ELSE Take(prev, t, Corrected(prev.r, t, Estimate(prev.r, t)))

\* the limbs of n \div d from limb i up, and what they leave of n
RECURSIVE DivFrom(_, _, _, _)
DivFrom(n, d, i, limbs) ==
    IF i > limbs THEN [q |-> << >>, r |-> n]
    ELSE DivLimb(DivFrom(n, d, i + 1, limbs), [j \in 1..(i - 1) |-> 0] \o d)

Trimmed(qr) == [q |-> BTrim(qr.q), r |-> qr.r]

\* quotient and remainder of n by d, for a quotient of at most so many limbs
BDivMod(n, d, limbs) == Trimmed(DivFrom(n, d, 1, limbs))

(***************************************************************************)
(* IEEE 754 binary64 arithmetic on magnitudes.  A magnitude is             *)
(* [cls, m, e]: m * 2^e with 2^52 <= m < 2^53, or m < 2^52 and e = -1074   *)
(* (subnormal, zero), or infinite.  Every operation of the processor       *)
(* rounds its exact result to the nearest magnitude, ties to even.         *)
(***************************************************************************)
BinZero == [cls |-> "fin", m |-> << >>, e |-> -1074]

BinInf == [cls |-> "inf", m |-> << >>, e |-> 0]

Bin(m, e) == IF e > 971 THEN BinInf ELSE [cls |-> "fin", m |-> m, e |-> e]

\* a significand rounded up to 2^53 is 2^52 of the next exponent
Carry(m, e) == IF BBitLen(m) = 54 THEN Bin(BShr(m, 1), e + 1) ELSE Bin(m, e)

\* rem of the quotient's bits were dropped below m0, r of the division
RoundsUp(m0, rem, half, r) ==
    \/ BCmp(rem, half) = 1
    \/ BCmp(rem, half) = 0 /\ (r # << >> \/ BOdd(m0))

RoundKept(m0, qr, drop, e) ==
    Carry(IF RoundsUp(m0, BSub(qr.q, BShl(m0, drop)), BShl(<<1>>, drop - 1), qr.r)
          THEN BAdd(m0, <<1>>) ELSE m0,
          e)

RoundAt(qr, x, e) == RoundKept(BShr(qr.q, e - x), qr, e - x, e)

\* q * 2^x, q of 55 or 56 bits, less than r short of the exact value: to 53
\* bits, or to the multiple of 2^-1074 where the value is subnormal
RoundQuotient(qr, x) == RoundAt(qr, x, Max(x + BBitLen(qr.q) - 53, -1074))

\* num * 2^(k - s) * 2^s, the quotient being num * 2^s
Shifted(num, s) ==
    IF s >= 0 THEN [q |-> BShl(num, s), r |-> << >>]
    ELSE [q |-> BShr(num, 0 - s), r |-> BSub(num, BShl(BShr(num, 0 - s), 0 - s))]

\* the magnitude nearest to num * 2^k
RoundInteger(num, k) ==
    IF num = << >> THEN BinZero
    ELSE RoundQuotient(Shifted(num, 56 - BBitLen(num)), k - (56 - BBitLen(num)))

\* the bits that bring den's length to a multiple of 14
Fill(den) == (14 - (BBitLen(den) % 14)) % 14

\* n / d as a fraction whose d has a top limb of at least 2^13
Normalised(n, d) == [n |-> BShl(n, Fill(d)), d |-> BShl(d, Fill(d))]

\* num * 2^k / den as such a fraction
Fraction(num, den, k) ==
    IF k >= 0 THEN Normalised(BShl(num, k), den) ELSE Normalised(num, BShl(den, 0 - k))

QuotientOf(f, limbs) == BDivMod(f.n, f.d, limbs)

\* the quotient of num * 2^s by den: s is such that it has 55 or 56 bits
Divided(num, den, s) == QuotientOf(Fraction(num, den, s), 4)

\* the magnitude nearest to num / den * 2^k
RoundRatio(num, den, k) ==
    IF num = << >> THEN BinZero
    ELSE RoundQuotient(Divided(num, den, 55 + BBitLen(den) - BBitLen(num)),
                       k - (55 + BBitLen(den) - BBitLen(num)))

\* the next magnitude up, and down (of a nonzero finite one)
BinSucc(a) == Carry(BAdd(a.m, <<1>>), a.e)

BinPred(a) ==
    IF BBitLen(a.m) = 53 /\ BBitLen(BSub(a.m, <<1>>)) = 52 /\ a.e > -1074
    THEN Bin(BSub(BShl(a.m, 1), <<1>>), a.e - 1)
    ELSE Bin(BSub(a.m, <<1>>), a.e)

\* f64 `*` and `/` of finite magnitudes, the divisor not zero
f64_mul(a, b) == RoundInteger(BMul(a.m, b.m), a.e + b.e)

f64_div(a, b) == RoundRatio(a.m, b.m, a.e - b.e)

\* the magnitude nearest to the decimal mant * 10^exp
NearestBin(mant, exp) ==
    IF exp >= 0 THEN RoundInteger(BMul(BNat(mant), BPow5(exp)), exp)
    ELSE RoundRatio(BNat(mant), BPow5(0 - exp), exp)


(***************************************************************************)
(* f64 values.                                                             *)
(***************************************************************************)
F64Zero(neg) == [cls |-> "fin", neg |-> neg, mant |-> 0, exp |-> 0, ulp |-> 0]

F64Inf(neg) == [cls |-> "inf", neg |-> neg, mant |-> 0, exp |-> 0, ulp |-> 0]

F64NaN == [cls |-> "nan", neg |-> FALSE, mant |-> 0, exp |-> 0, ulp |-> 0]

\* mant * 10^exp with the trailing zeros of mant moved into exp (mant > 0)
RECURSIVE Normalize(_, _, _)
Normalize(neg, mant, exp) ==
    IF mant % 10 = 0 THEN Normalize(neg, mant \div 10, exp + 1)
    ELSE [cls |-> "fin", neg |-> neg, mant |-> mant, exp |-> exp, ulp |-> 0]

\* -1, 0 or 1 as num * 2^k is below, at or above den
CmpScaled(num, den, k) ==
    IF k >= 0 THEN BCmp(BShl(num, k), den) ELSE BCmp(num, BShl(den, 0 - k))

\* a * 5^exp against m, or a against m * 5^(-exp), prod being the product
Sides(a, m, prod, exp) ==
    IF exp >= 0 THEN [num |-> prod, den |-> m] ELSE [num |-> a, den |-> prod]

CmpSides(s, k) == CmpScaled(s.num, s.den, k)

\* -1, 0 or 1 as the decimal mant * 10^exp is below, at or above m * 2^e
CmpDecimal(mant, exp, m, e) ==
    CmpSides(Sides(BNat(mant), m,
                   BMul(IF exp >= 0 THEN BNat(mant) ELSE m,
                        BPow5(IF exp >= 0 THEN exp ELSE 0 - exp)),
                   exp),
             exp - e)

\* a normalized nonzero decimal in the decade of one of f64's two ends, cmp
\* its place against that end: infinite from 2^1024 - 2^970 on, where the
\* tie goes to the even 2^1024, and zero up to 2^-1075, where it goes to 0
AtThreshold(n, top, cmp) ==
    IF top = 309 /\ cmp >= 0 THEN F64Inf(n.neg)
    ELSE IF top = -323 /\ cmp <= 0 THEN F64Zero(n.neg)
    ELSE n

\* a normalized nonzero decimal, 10^(top-1) <= n < 10^top, rounded into
\* f64's range
Rounded(n, top) ==
    IF top > 309 THEN F64Inf(n.neg)
    ELSE IF top < -323 THEN F64Zero(n.neg)
    ELSE IF top \in {309, -323}
    THEN AtThreshold(n, top,
             CmpDecimal(n.mant, n.exp,
                        IF top = 309 THEN BSub(BShl(<<1>>, 54), <<1>>) ELSE <<1>>,
                        IF top = 309 THEN 970 ELSE -1075))
    ELSE n

NearestNormal(n) == Rounded(n, NumDigits(n.mant) + n.exp)

(***************************************************************************)
(* The f64 nearest to the decimal mant * 10^exp (round to nearest, as      *)
(* core::num::dec2flt does).  From 2^1024 - 2^970, half a unit above       *)
(* f64::MAX = 1.7976931348623157e308, the result is infinite; at or below  *)
(* 2^-1075 = 2.4703282e-324 it is zero.  In the decades of the two ends    *)
(* the decimal is compared with them exactly.  A subnormal result keeps    *)
(* its decimal.                                                            *)
(***************************************************************************)
F64Nearest(neg, mant, exp) ==
    IF mant = 0 THEN F64Zero(neg) ELSE NearestNormal(Normalize(neg, mant, exp))

\* the magnitude of a finite f64
Neighbour(a, ulp) == IF ulp = 0 THEN a ELSE IF ulp = 1 THEN BinSucc(a) ELSE BinPred(a)

BinOf(f) == Neighbour(NearestBin(f.mant, f.exp), f.ulp)

\* how many places b, right next to a or a itself, lies above a
Ulps(a, b) ==
    CASE b = a -> 0
      [] b # a /\ b = BinSucc(a) -> 1
      [] b # a /\ a # BinZero /\ b = BinPred(a) -> -1

\* the f64 of magnitude b, given the f64 f nearest to a decimal next to it
WithUlp(f, b) ==
    IF b = BinZero THEN F64Zero(f.neg)
    ELSE [f EXCEPT !.ulp = Ulps(NearestBin(f.mant, f.exp), b)]

\* two finite f64 are the same number
SameValue(a, b) == BinOf(a) = BinOf(b) /\ (a.neg = b.neg \/ BinOf(a) = BinZero)

\* f64 `==`: NaN equals nothing, the two zeros are equal
F64Eq(a, b) ==
    /\ a.cls # "nan" /\ b.cls # "nan"
    /\ \/ a = b
       \/ a.cls = "fin" /\ b.cls = "fin" /\ SameValue(a, b)

(***************************************************************************)
(* A float in an error of serde_json: the shortest decimal that reads      *)
(* back as the same f64 and, of those, the nearest to it.                  *)
(* A decimal reads back as b when it lies no further than half the way to  *)
(* b's neighbours (core::num::flt2dec::decode: a quarter of b's unit       *)
(* below a power of two, the bounds included when b's significand is       *)
(* even or b is subnormal).                                                *)
(***************************************************************************)
\* a lower bound of log10 of b, at most one too low
DecadeGuess(b) == ((BBitLen(b.m) + b.e - 1) * 30103) \div 100000

\* b against 10^p
CmpPow10(b, p) ==
    IF p >= 0 THEN CmpScaled(b.m, BPow5(p), b.e - p)
    ELSE CmpScaled(BMul(b.m, BPow5(0 - p)), <<1>>, b.e - p)

\* the k with 10^(k-1) <= b < 10^k
Decade(b, guess) == IF CmpPow10(b, guess + 1) >= 0 THEN guess + 2 ELSE guess + 1

\* b / 10^t as a fraction
Scaled(b, t) ==
    IF t >= 0 THEN Fraction(b.m, BPow5(t), b.e - t)
    ELSE Fraction(BMul(b.m, BPow5(0 - t)), <<1>>, b.e - t)

Inclusive(b) == BBitLen(b.m) < 53 \/ ~BOdd(b.m)

\* b's unit over the distance to its lower bound
LowerShare(b) == IF b.m = BShl(<<1>>, 52) THEN 4 ELSE 2

\* dist / d, a distance in units of 10^t, is within b's unit over share
Within(b, s, dist, share) ==
    \/ BCmp(BMul(BMulSmall(dist, share), b.m), s.n) < 0
    \/ BCmp(BMul(BMulSmall(dist, share), b.m), s.n) = 0 /\ Inclusive(b)

\* the multiples of 10^t next to b: qr.q below it, qr.q + 1 above; up is
\* -1, 0 or 1 as b is nearer to the lower one, half way, or nearer to the
\* upper one
Judged(b, s, qr, t) ==
    [low |-> Within(b, s, qr.r, LowerShare(b)),
     high |-> Within(b, s, BSub(s.d, qr.r), 2),
     up |-> BCmp(BMulSmall(qr.r, 2), s.d),
     q |-> qr.q, t |-> t]

Judge(b, s, t) == Judged(b, s, BDivMod(s.n, s.d, 5), t)

Candidates(b, t) == Judge(b, Scaled(b, t), t)

\* of the two, the one within b's bounds; of two within, the nearer to b,
\* and the even one when b is half way between them
Picked(c) ==
    IF c.low /\ ~(c.high /\ (c.up > 0 \/ (c.up = 0 /\ BOdd(c.q))))
    THEN [q |-> c.q, t |-> c.t]
    ELSE [q |-> BAdd(c.q, <<1>>), t |-> c.t]

\* the shortest decimal q * 10^t for b, trying n digits and then more
RECURSIVE Shortest(_, _, _)
ShortestOr(b, k, n, c) == IF c.low \/ c.high THEN Picked(c) ELSE Shortest(b, k, n + 1)

Shortest(b, k, n) == ShortestOr(b, k, n, Candidates(b, k - n))

\* a natural number below 2^31 held in limbs
BInt(a) == Limb(a, 1) + Limb(a, 2) * LimbBase + Limb(a, 3) * LimbBase * LimbBase

\* q below 10^18 as its digits above the ninth and its last nine
HighLow(qr) ==
    IF qr.q = << >> THEN Decimal(BInt(BShr(qr.r, 12)))
    ELSE Decimal(BInt(qr.q)) \o Padded(BInt(BShr(qr.r, 12)), 9)

BDecimal(q) == HighLow(BDivMod(BShl(q, 12), BShl(BNat(1000000000), 12), 3))

Zeros(n) == [i \in 1..n |-> "0"]

\* the digits without their trailing zeros, which go to the power of ten
RECURSIVE Stripped(_, _)
Stripped(ds, t) ==
    IF Len(ds) > 1 /\ ds[Len(ds)] = "0" THEN Stripped(SubSeq(ds, 1, Len(ds) - 1), t + 1)
    ELSE [ds |-> ds, t |-> t]

\* the digits ds times 10^t in positional notation, with ".0" where there is
\* no fraction
Positional(ds, t) ==
    IF t >= 0 THEN ds \o Zeros(t) \o <<".", "0">>
    ELSE IF Len(ds) + t > 0
    THEN SubSeq(ds, 1, Len(ds) + t) \o <<".">> \o SubSeq(ds, Len(ds) + t + 1, Len(ds))
    ELSE <<"0", ".">> \o Zeros(0 - t - Len(ds)) \o ds

\* the digits ds in scientific notation, e the power of ten of the first one:
\* d[.ddd]e+X or d[.ddd]e-X
Scientific(ds, e) ==
    <<ds[1]>> \o (IF Len(ds) > 1 THEN <<".">> \o Tail(ds) ELSE << >>)
    \o <<"e">> \o (IF e >= 0 THEN <<"+">> \o Decimal(e) ELSE <<"-">> \o Decimal(0 - e))

\* positional from 1e-5 up to 1e16 excluded (the power of ten of the first
\* digit from -5 to 15), scientific beyond
Written(d) ==
    IF Len(d.ds) + d.t - 1 >= 0 - 5 /\ Len(d.ds) + d.t - 1 <= 15
    THEN Positional(d.ds, d.t)
    ELSE Scientific(d.ds, Len(d.ds) + d.t - 1)

ShortestDigits(s) == Stripped(BDecimal(s.q), s.t)

\* a finite magnitude as serde_json writes it in an error: the shortest digits
\* that read back as the same f64
DisplayBin(b) ==
    IF b.m = << >> THEN <<"0", ".", "0">>
    ELSE Written(ShortestDigits(Shortest(b, Decade(b, DecadeGuess(b)), 1)))

\* a finite f64 as serde_json writes it in an invalid-type error
DisplayF64(f) == (IF f.neg THEN <<"-">> ELSE << >>) \o DisplayBin(BinOf(f))

(***************************************************************************)
(* The positions of a decimal number in s from position start on:          *)
(* digits s[start..i1-1], after a '.' at i1 the digits s[f0..i2-1], after  *)
(* an 'e' or 'E' at i2 and a sign the digits s[e1..i3-1]; stop is the      *)
(* first position not read.  f64::from_str and serde_json's number parser  *)
(* both read a number this way and differ in what they then accept.        *)
(***************************************************************************)
ScanExponent(s, start, i1, hasDot, i2) ==
    LET hasExp == i2 <= Len(s) /\ LowerChar(s[i2]) = "e"
        eSign  == i2 + 1 <= Len(s) /\ s[i2 + 1] \in {"+", "-"}
        e1     == IF eSign THEN i2 + 2 ELSE i2 + 1
        i3     == SkipDigits(s, e1)
    IN  [start |-> start, i1 |-> i1, hasDot |-> hasDot,
         f0 |-> IF hasDot THEN i1 + 1 ELSE i1, i2 |-> i2, hasExp |-> hasExp,
         eNeg |-> eSign /\ s[i2 + 1] = "-", e1 |-> e1, i3 |-> i3,
         stop |-> IF hasExp THEN i3 ELSE i2]

ScanFraction(s, start, i1) ==
    IF i1 <= Len(s) /\ s[i1] = "."
    THEN ScanExponent(s, start, i1, TRUE, SkipDigits(s, i1 + 1))
    ELSE ScanExponent(s, start, i1, FALSE, i1)

Scan(s, start) == ScanFraction(s, start, SkipDigits(s, start))

\* the digits of the integer and fraction parts read as one integer
Significand(s, p) ==
    DigitsValue(s, p.start, p.i1) * Pow10(p.i2 - p.f0) + DigitsValue(s, p.f0, p.i2)

ExponentAbs(s, p) == IF p.hasExp THEN DigitsValue(s, p.e1, p.i3) ELSE 0

\* the power of ten the significand is scaled by
Exponent(s, p) ==
    (IF p.eNeg THEN 0 - ExponentAbs(s, p) ELSE ExponentAbs(s, p)) - (p.i2 - p.f0)

(***************************************************************************)
(* <f64 as FromStr>::from_str, called at models.rs lines 21 and 49.        *)
(*   Float  ::= Sign? ( 'inf' | 'infinity' | 'nan' | Number )              *)
(*   Number ::= ( Digit+ | Digit+ '.' Digit* | Digit* '.' Digit+ ) Exp?    *)
(*   Exp    ::= 'e' Sign? Digit+        (letters in either case)           *)
(* The result is [ok, v, e]: e is the ParseFloatError's message.           *)
(***************************************************************************)
FloatOk(v) == [ok |-> TRUE, v |-> v, e |-> ""]

FloatErr(e) == [ok |-> FALSE, v |-> F64NaN, e |-> e]

\* the Number production, scanned as p; neg is the sign read before it
ParseDecimal(s, neg, p) ==
    IF (p.i1 - p.start) + (p.i2 - p.f0) = 0 THEN FloatErr("invalid float literal")
    ELSE IF p.hasExp /\ p.i3 = p.e1 THEN FloatErr("invalid float literal")
    ELSE IF p.stop # Len(s) + 1 THEN FloatErr("invalid float literal")
    ELSE FloatOk(F64Nearest(neg, Significand(s, p), Exponent(s, p)))

\* the text after the sign, in lower case, is rest
ParseFloat(s, neg, start, rest) ==
    IF rest \in {<<"i","n","f">>, <<"i","n","f","i","n","i","t","y">>}
    THEN FloatOk(F64Inf(neg))
    ELSE IF rest = <<"n","a","n">> THEN FloatOk(F64NaN)
    ELSE ParseDecimal(s, neg, Scan(s, start))

\* the position after a sign, if s begins with one
AfterSign(s) == IF s[1] \in {"+", "-"} THEN 2 ELSE 1

f64_from_str(s) ==
    IF Len(s) = 0 THEN FloatErr("cannot parse float from empty string")
    ELSE ParseFloat(s, s[1] = "-", AfterSign(s), Lower(SubSeq(s, AfterSign(s), Len(s))))

(***************************************************************************)
(* Integers.  An i64 or u64 is held as [neg, q, r], |n| = 1000 * q + r     *)
(* with 0 <= r < 1000, so that a 13-digit millisecond count stays within   *)
(* TLC's 32-bit arithmetic;  the model covers |n| < 2^31 * 1000.           *)
(***************************************************************************)
IntOf(neg, q, r) == [neg |-> neg /\ (q # 0 \/ r # 0), q |-> q, r |-> r]

\* the integer written by the digits s[i..j-1]
IntFromDigits(s, i, j, neg) ==
    LET cut == IF j - i > 3 THEN j - 3 ELSE i
    IN  IntOf(neg, DigitsValue(s, i, cut), DigitsValue(s, cut, j))

IntZero == IntOf(FALSE, 0, 0)

\* `n as f64` (serde's visit_u64 / visit_i64 for an f64); an integer of the
\* model is far below f64::MAX
IntAsF64(n) ==
    IF n.q = 0 /\ n.r = 0 THEN F64Zero(n.neg) ELSE Normalize(n.neg, n.q * 1000 + n.r, 0)

(***************************************************************************)
(* JSON values as serde_json reads them.                                   *)
(***************************************************************************)
JAbsent == [t |-> "absent", s |-> << >>]

JNull == [t |-> "null", s |-> << >>]

JBool == [t |-> "bool", s |-> << >>]

JArr == [t |-> "arr", s |-> << >>]

JObj == [t |-> "obj", s |-> << >>]

JNum(s) == [t |-> "num", s |-> s]

JStr(s) == [t |-> "str", s |-> s]

\* a JSON number token: -?(0|[1-9][0-9]*)(\.[0-9]+)?([eE][+-]?[0-9]+)?
NumberParts(s) == Scan(s, IF Len(s) > 0 /\ s[1] = "-" THEN 2 ELSE 1)

IsNumberToken(s, p) ==
    /\ p.i1 > p.start
    /\ s[p.start] = "0" => p.i1 = p.start + 1
    /\ p.hasDot => p.i2 > p.f0
    /\ p.hasExp => p.i3 > p.e1
    /\ p.stop = Len(s) + 1

IsJsonNumber(s) == IsNumberToken(s, NumberParts(s))

(***************************************************************************)
(* serde_json's Deserializer::f64_from_parts (built without                *)
(* float_roundtrip): the significand as an f64, multiplied or divided by   *)
(* the f64 power of ten, so rounded up to three times; an infinite product *)
(* is the error "number out of range".                                     *)
(*   let mut f = significand as f64;                                       *)
(*   loop { match POW10.get(exponent.wrapping_abs() as usize) {            *)
(*     Some(&pow) => { if exponent >= 0 { f *= pow;                        *)
(*                       if f.is_infinite() { return Err(OutOfRange) } }   *)
(*                     else { f /= pow } break }                           *)
(*     None => { if f == 0.0 { break }                                     *)
(*               if exponent >= 0 { return Err(OutOfRange) }               *)
(*               f /= 1e308; exponent += 308 } } }                         *)
(*   Ok(if positive { f } else { -f })                                     *)
(***************************************************************************)
NumF64(f) == [k |-> "F64", n |-> IntZero, f |-> f]

NumU64(n) == [k |-> "U64", n |-> n, f |-> F64NaN]

NumI64(n) == [k |-> "I64", n |-> n, f |-> F64NaN]

NumOutOfRange == [k |-> "OutOfRange", n |-> IntZero, f |-> F64NaN]

\* `significand as f64`
u64_as_f64(significand) == RoundInteger(BNat(significand), 0)

\* serde_json's table POW10: the f64 literals 1e0 .. 1e308
POW10(i) == RoundInteger(BPow5(i), i)

BinOutOfRange == [cls |-> "oor", m |-> << >>, e |-> 0]

\* `if f.is_infinite() { return Err(NumberOutOfRange) }`
FiniteOrOutOfRange(f) == IF f.cls = "inf" THEN BinOutOfRange ELSE f

\* the loop of f64_from_parts on the magnitude f
RECURSIVE ScaleByPow10(_, _)
ScaleByPow10(f, exponent) ==
    IF exponent > -309 /\ exponent < 309
    THEN IF exponent >= 0 THEN FiniteOrOutOfRange(f64_mul(f, POW10(exponent)))
         ELSE f64_div(f, POW10(0 - exponent))
    ELSE IF f = BinZero THEN f
    ELSE IF exponent >= 0 THEN BinOutOfRange
    ELSE ScaleByPow10(f64_div(f, POW10(308)), exponent + 308)

\* the result, an f64 next to the one nearest to significand * 10^exponent
Parts(b, neg, significand, exponent) ==
    IF b.cls = "oor" THEN NumOutOfRange
    ELSE NumF64(WithUlp(F64Nearest(neg, significand, exponent), b))

f64_from_parts(positive, significand, exponent) ==
    Parts(ScaleByPow10(u64_as_f64(significand), exponent), ~positive, significand, exponent)

\* serde_json's integer: a u64, a negative i64, and `-0` the f64 -0.0
IntegerNumber(n, neg) ==
    IF ~neg THEN NumU64(n) ELSE IF n = IntZero THEN NumF64(F64Zero(TRUE)) ELSE NumI64(n)

\* serde_json's parse of a number token scanned as p
ParseNumber(s, p) ==
    IF p.hasDot \/ p.hasExp
    THEN f64_from_parts(p.start = 1, Significand(s, p), Exponent(s, p))
    ELSE IntegerNumber(IntFromDigits(s, p.start, p.i1, p.start = 2), p.start = 2)

\* serde_json's parse of a number token
ParseToken(s) == ParseNumber(s, NumberParts(s))

\* the numbers written in the sample pair documents and in what replaces
\* their fields
PairTokens ==
    { <<"0">>, <<"-","1">>, <<"1",".","5">>, <<"5">>, <<"1","0">>, <<"3","0">>, <<"6","0">>,
      <<"1","8","0">>, <<"3","6","0">>, <<"7","2","0">>, <<"1","4","4","0">>,
      <<"1","6","2","0","2","5","0","9","3","1","0","0","0">>,
      <<"0",".","1">>, <<"1",".","0">>, <<"2",".","0">>, <<"5",".","0">>,
      <<"1","0","0","0",".","5">>, <<"1","0","0","0",".","2","5">>,
      <<"3","0","0","0",".","5">>, <<"6","0","0","0",".","2","5">>,
      <<"3","6","0","0","0",".","7","5">>, <<"1","4","4","0","0","0",".","5">>,
      <<"5","0","0","0","0","0","0",".","5">>, <<"1","0","0","0","0","0","0","0",".","5">>,
      <<"2","5","0","0","0","0","0",".","2","5">>, <<"3","0","0","0","0","0","0",".","7","5">>,
      <<"9","e","9","1">>, <<"1","e","9","9","9">> }

\* their parse, computed once
ParsedPairTokens == [s \in PairTokens |-> ParseToken(s)]

ParserNumber(s) == IF s \in PairTokens THEN ParsedPairTokens[s] ELSE ParseToken(s)

(***************************************************************************)
(* serde's buffered Content of a value, which an untagged enum is matched  *)
(* against variant by variant.                                             *)
(***************************************************************************)
NumberContent(n) == [c |-> n.k, n |-> n.n, f |-> n.f, s |-> << >>]

ContentOf(j, n) ==
    IF j.t = "num" THEN NumberContent(n)
    ELSE [c |-> CASE j.t = "str" -> "String" [] j.t = "null" -> "Unit"
                  [] j.t = "bool" -> "Bool" [] j.t = "arr" -> "Seq"
                  [] j.t = "obj" -> "Map",
          n |-> IntZero, f |-> F64NaN, s |-> j.s]

Content(j) == ContentOf(j, ParserNumber(j.s))

(***************************************************************************)
(* Results.  A value is [some, f, at]: an f64, an Option<f64> or an        *)
(* Option<DateTime<Utc>>; an error is [kind, msg], msg the pieces of its   *)
(* message: literals, and input text where the message quotes it.          *)
(***************************************************************************)
NoInstant == [secs |-> 0, nsecs |-> 0]

Some(f) == [some |-> TRUE, f |-> f, at |-> NoInstant]

SomeInstant(at) == [some |-> TRUE, f |-> F64Zero(FALSE), at |-> at]

None == [some |-> FALSE, f |-> F64Zero(FALSE), at |-> NoInstant]

Lit(l) == [lit |-> l, text |-> << >>]

Quoted(s) == [lit |-> "", text |-> s]

NoError == [kind |-> "none", msg |-> << >>]

Ok(v) == [st |-> "ok", val |-> v, err |-> NoError]

Err(kind, msg) == [st |-> "err", val |-> None, err |-> [kind |-> kind, msg |-> msg]]

Panic == [st |-> "panic", val |-> None, err |-> NoError]

\* serde::de::Error::custom(e): the message is e's Display
Custom(msg) == Err("custom", msg)

\* no variant of an untagged enum accepted the content
NoVariant(enum) ==
    Err("no_variant", <<Lit("data did not match any variant of untagged enum "), Lit(enum)>>)

\* serde_json's own error for a number token beyond f64
OutOfRange == Err("syntax", <<Lit("number out of range")>>)

MissingField(name) == Err("missing_field", <<Lit("missing field "), Lit(name)>>)

(***************************************************************************)
(* models.rs 9-24.  The derived StringOrNumber::deserialize (13-20) takes  *)
(* the first variant the buffered content fits; the match (20-23) parses   *)
(* a String and passes a Number on.                                        *)
(***************************************************************************)
\* unwrap_or_default in place of map_err: a parse failure becomes no value
ParsedOrDefault(p) == IF p.ok THEN Ok(Some(p.v)) ELSE Ok(None)

\* f64::from_str(&s).map_err(serde::de::Error::custom), models.rs 21
ParsedOrCustom(p) == IF p.ok THEN Ok(Some(p.v)) ELSE Custom(<<Lit(p.e)>>)

\* a decoder that takes null and the empty string for 0.0
string_or_number_or_zero(c) ==
    IF c.c = "OutOfRange" THEN OutOfRange
    ELSE IF c.c = "String"
    THEN IF Len(c.s) = 0 THEN Ok(Some(F64Zero(FALSE))) ELSE ParsedOrCustom(f64_from_str(c.s))
    ELSE IF c.c \in {"U64", "I64"} THEN Ok(Some(IntAsF64(c.n)))
    ELSE IF c.c = "F64" THEN Ok(Some(c.f))
    ELSE IF c.c = "Unit" THEN Ok(Some(F64Zero(FALSE)))
    ELSE NoVariant("StringOrNumber")

string_or_number(c) ==
    IF c.c = "OutOfRange" THEN OutOfRange
    ELSE IF c.c = "String" THEN ParsedOrCustom(f64_from_str(c.s))
    ELSE IF c.c \in {"U64", "I64"} THEN Ok(Some(IntAsF64(c.n)))
    ELSE IF c.c = "F64" THEN Ok(Some(c.f))
    ELSE NoVariant("StringOrNumber")

deserialize_string_or_number(j) == string_or_number(Content(j))

(***************************************************************************)
(* models.rs 30-57                                                         *)
(***************************************************************************)
\* a decoder that takes a zero for no value
optional_nonzero_string_or_number(c) ==
    IF c.c = "OutOfRange" THEN OutOfRange
    ELSE IF c.c = "String"
    THEN IF Len(c.s) = 0 \/ c.s = <<"0">> THEN Ok(None)
         ELSE ParsedOrCustom(f64_from_str(c.s))
    ELSE IF c.c \in {"U64", "I64"}
    THEN IF c.n = IntZero THEN Ok(None) ELSE Ok(Some(IntAsF64(c.n)))
    ELSE IF c.c = "F64" THEN Ok(Some(c.f))
    ELSE IF c.c = "Unit" THEN Ok(None)
    ELSE NoVariant("OptionalStringOrNumber")

optional_string_or_number(c) ==
    IF c.c = "OutOfRange" THEN OutOfRange
    ELSE IF c.c = "String"
    THEN IF Len(c.s) = 0 THEN Ok(None) ELSE ParsedOrCustom(f64_from_str(c.s))
    ELSE IF c.c \in {"U64", "I64"} THEN Ok(Some(IntAsF64(c.n)))
    ELSE IF c.c = "F64" THEN Ok(Some(c.f))
    ELSE IF c.c = "Unit" THEN Ok(None)
    ELSE NoVariant("OptionalStringOrNumber")

deserialize_optional_string_or_number(j) == optional_string_or_number(Content(j))

(***************************************************************************)
(* Instants: [secs, nsecs], seconds since the Unix epoch (floor) and the   *)
(* nanoseconds past them, as chrono holds a DateTime<Utc>.                 *)
(***************************************************************************)
Instant(secs, nsecs) == [secs |-> secs, nsecs |-> nsecs]

\* `x as u32` for |x| < 10^9, as [hi, lo] = bit 31 and the low 31 bits
AsU32(x) ==
    IF x >= 0 THEN [hi |-> 0, lo |-> x] ELSE [hi |-> 1, lo |-> (2147483647 + x) + 1]

\* Utc.timestamp_opt(secs, nsecs): nothing unless nsecs < 2_000_000_000, and
\* a leap-second nsecs (>= 10^9) only in the last second of a minute
timestamp_opt(secs, nsecs) ==
    IF nsecs.hi = 0 /\ (nsecs.lo < 1000000000
                        \/ (nsecs.lo < 2000000000 /\ secs % 60 = 59))
    THEN [some |-> TRUE, at |-> Instant(secs, nsecs.lo)]
    ELSE [some |-> FALSE, at |-> NoInstant]

(***************************************************************************)
(* models.rs 80-82, and again 96-98: milliseconds to a DateTime.  `/` and  *)
(* `%` of i64 truncate toward zero, so a negative ts has a negative        *)
(* remainder, which `as u32` wraps; unwrap() panics on nothing.            *)
(***************************************************************************)
Unwrap(dt) == IF dt.some THEN Ok(SomeInstant(dt.at)) ELSE Panic

millis_to_datetime(ts) ==
    LET secs  == IF ts.neg THEN 0 - ts.q ELSE ts.q
        rem   == IF ts.neg THEN 0 - ts.r ELSE ts.r
    IN  Unwrap(timestamp_opt(secs, AsU32(rem * 1000000)))

(***************************************************************************)
(* <i64 as FromStr>::from_str, called at models.rs line 94: an optional    *)
(* sign and at least one digit, nothing else.  The digits are taken from   *)
(* the left, each checked to be a digit and then added to the value with   *)
(* checked arithmetic, so that of a character that is no digit and a value *)
(* out of i64 the one met first decides the error.  [ok, n, e], e the      *)
(* ParseIntError's message.                                                *)
(***************************************************************************)
I64MaxDigits ==
    <<"9","2","2","3","3","7","2","0","3","6","8","5","4","7","7","5","8","0","7">>

I64MinDigits ==
    <<"9","2","2","3","3","7","2","0","3","6","8","5","4","7","7","5","8","0","8">>

\* the digits s[i..j-1] without their leading zeros
RECURSIVE Significant(_, _, _)
Significant(s, i, j) ==
    IF i < j /\ s[i] = "0" THEN Significant(s, i + 1, j) ELSE SubSeq(s, i, j - 1)

\* the number written by the digits a is greater than the one written by b
DigitsExceed(a, b) ==
    \/ Len(a) > Len(b)
    \/ /\ Len(a) = Len(b)
       /\ \E i \in DOMAIN a :
              DigitVal(a[i]) > DigitVal(b[i]) /\ \A k \in 1..(i - 1) : a[k] = b[k]

ParseIntError(e) == [ok |-> FALSE, n |-> IntZero, e |-> e]

\* the digits run from start to stop - 1
ParseDigits(s, start, stop, run) ==
    IF s[1] = "-" /\ DigitsExceed(run, I64MinDigits)
    THEN ParseIntError("number too small to fit in target type")
    ELSE IF s[1] # "-" /\ DigitsExceed(run, I64MaxDigits)
    THEN ParseIntError("number too large to fit in target type")
    ELSE IF start > Len(s) \/ stop # Len(s) + 1
    THEN ParseIntError("invalid digit found in string")
    ELSE [ok |-> TRUE, n |-> IntFromDigits(s, start, Len(s) + 1, s[1] = "-"), e |-> ""]

ParseInt(s, start) ==
    IF start > Len(s) THEN ParseIntError("invalid digit found in string")
    ELSE ParseDigits(s, start, SkipDigits(s, start),
                     Significant(s, start, SkipDigits(s, start)))

i64_from_str(s) ==
    IF Len(s) = 0 THEN ParseIntError("cannot parse integer from empty string")
    ELSE ParseInt(s, IF s[1] \in {"+", "-"} THEN 2 ELSE 1)

(***************************************************************************)
(* chrono's DateTime::parse_from_rfc3339, called at models.rs line 90:     *)
(*   YYYY-MM-DD (T|t) HH:MM:SS [. digits] (Z | z | (+|-)HH:MM)             *)
(* with the fields range-checked, and with_timezone(&Utc) at line 91.      *)
(* The model covers the years whose epoch seconds fit in 31 bits.          *)
(***************************************************************************)
IsLeapYear(y) == y % 4 = 0 /\ (y % 100 # 0 \/ y % 400 = 0)

DaysInMonth(y, m) ==
    IF m = 2 THEN (IF IsLeapYear(y) THEN 29 ELSE 28)
    ELSE IF m \in {4, 6, 9, 11} THEN 30 ELSE 31

\* days from 1970-01-01 to the civil date y-m-d
DaysFromCivil(y, m, d) ==
    LET yy  == IF m <= 2 THEN y - 1 ELSE y
        era == yy \div 400
        yoe == yy - era * 400
        mp  == IF m > 2 THEN m - 3 ELSE m + 9
        doy == (153 * mp + 2) \div 5 + d - 1
        doe == yoe * 365 + yoe \div 4 - yoe \div 100 + doy
    IN  era * 146097 + doe - 719468

AllDigits(s, i, j) == j <= Len(s) /\ \A k \in i..j : IsDigit(s[k])

\* the fraction's nanoseconds: the first nine digits of s[i..j-1], scaled
FractionNanos(s, i, j) ==
    IF j - i > 9 THEN DigitsValue(s, i, i + 9)
    ELSE DigitsValue(s, i, j) * Pow10(9 - (j - i))

\* the date and time of day, [ok, secs]: seconds since the epoch, local
DateTimeFields(y, mo, d, h, mi, sec) ==
    IF mo \in 1..12 /\ d >= 1 /\ d <= DaysInMonth(y, mo) /\ h <= 23 /\ mi <= 59 /\ sec <= 60
    THEN [ok |-> TRUE, leap |-> sec = 60,
          secs |-> DaysFromCivil(y, mo, d) * 86400 + h * 3600 + mi * 60
                   + (IF sec = 60 THEN 59 ELSE sec)]
    ELSE [ok |-> FALSE, leap |-> FALSE, secs |-> 0]

\* U+2212 MINUS SIGN, which chrono takes for the sign of an offset as it
\* takes '-': one character, no digit and no sign to the other parsers
MinusSign == "u2212"

\* the offset from position i to the end of s, [ok, secs]
OffsetFields(s, i, offH, offM) ==
    IF offM <= 59 /\ offH * 3600 + offM * 60 < 86400
    THEN [ok |-> TRUE,
          secs |-> IF s[i] \in {"-", MinusSign} THEN 0 - (offH * 3600 + offM * 60)
                   ELSE offH * 3600 + offM * 60]
    ELSE [ok |-> FALSE, secs |-> 0]

Offset(s, i) ==
    IF i = Len(s) /\ LowerChar(s[i]) = "z" THEN [ok |-> TRUE, secs |-> 0]
    ELSE IF /\ i + 5 = Len(s) /\ s[i] \in {"+", "-", MinusSign} /\ AllDigits(s, i + 1, i + 2)
            /\ s[i + 3] = ":" /\ AllDigits(s, i + 4, i + 5)
    THEN OffsetFields(s, i, DigitsValue(s, i + 1, i + 3), DigitsValue(s, i + 4, i + 6))
    ELSE [ok |-> FALSE, secs |-> 0]

\* local date and time, fraction and offset put together
Assemble(local, nanos, offset) ==
    IF local.ok /\ offset.ok
    THEN [ok |-> TRUE,
          at |-> Instant(local.secs - offset.secs,
                         IF local.leap THEN 1000000000 + nanos ELSE nanos)]
    ELSE [ok |-> FALSE, at |-> NoInstant]

\* the fraction, if any, ends before position fEnd
Rfc3339Tail(s, local, fEnd) ==
    IF s[20] = "." /\ fEnd = 21 THEN [ok |-> FALSE, at |-> NoInstant]
    ELSE Assemble(local, IF s[20] = "." THEN FractionNanos(s, 21, fEnd) ELSE 0,
                  Offset(s, fEnd))

parse_from_rfc3339(s) ==
    IF /\ Len(s) >= 20
       /\ AllDigits(s, 1, 4) /\ s[5] = "-" /\ AllDigits(s, 6, 7)
       /\ s[8] = "-" /\ AllDigits(s, 9, 10) /\ s[11] \in {"T", "t", " "}
       /\ AllDigits(s, 12, 13) /\ s[14] = ":" /\ AllDigits(s, 15, 16)
       /\ s[17] = ":" /\ AllDigits(s, 18, 19)
    THEN Rfc3339Tail(s,
             DateTimeFields(DigitsValue(s, 1, 5), DigitsValue(s, 6, 8),
                            DigitsValue(s, 9, 11), DigitsValue(s, 12, 14),
                            DigitsValue(s, 15, 17), DigitsValue(s, 18, 20)),
             IF s[20] = "." THEN SkipDigits(s, 21) ELSE 20)
    ELSE [ok |-> FALSE, at |-> NoInstant]

(***************************************************************************)
(* models.rs 63-110.  The derived TimestampOrString::deserialize (69-77)   *)
(* takes the first variant the buffered content fits: an integer that fits *)
(* an i64, a string, null.                                                 *)
(***************************************************************************)
\* a string that is no integer either taken for no value
MillisOrNone(ts) == IF ts.ok THEN millis_to_datetime(ts.n) ELSE Ok(None)

\* models.rs 94-104: the string was no RFC 3339 timestamp
MillisOrCustom(ts) ==
    IF ts.ok THEN millis_to_datetime(ts.n)
    ELSE Custom(<<Lit("Failed to parse datetime: "), Lit(ts.e)>>)

\* models.rs 90-106
Rfc3339OrMillis(s, dt) ==
    IF dt.ok THEN Ok(SomeInstant(dt.at)) ELSE MillisOrCustom(i64_from_str(s))

timestamp_to_datetime(c) ==
    IF c.c = "OutOfRange" THEN OutOfRange
    ELSE IF c.c \in {"U64", "I64"} THEN millis_to_datetime(c.n)
    ELSE IF c.c = "String"
    THEN IF Len(c.s) = 0 THEN Ok(None) ELSE Rfc3339OrMillis(c.s, parse_from_rfc3339(c.s))
    ELSE IF c.c = "Unit" THEN Ok(None)
    ELSE NoVariant("TimestampOrString")

deserialize_timestamp_to_datetime(j) == timestamp_to_datetime(Content(j))

(***************************************************************************)
(* Structures.  A document is a function from paths (tuples of field       *)
(* names) to JSON values; a field missing from its object is JAbsent, and  *)
(* the fields below a path are read only when the path holds an object.    *)
(* serde visits the members present in the object first, in the order of   *)
(* the object, and reports the first failure; only then does it default    *)
(* or reject the missing fields, in the order of the struct.  A document   *)
(* is a serde_json::Value, as in tests/models_test.rs 244 and 427: the     *)
(* members of an object are in the order of their keys.  JArr is the       *)
(* empty array.                                                            *)
(***************************************************************************)
\* an integer as serde writes it
DisplayInt(n) ==
    (IF n.neg THEN <<"-">> ELSE << >>)
    \o (IF n.q = 0 THEN Decimal(n.r) ELSE Decimal(n.q) \o Padded(n.r, 3))

\* serde's Unexpected of a number: its kind, and the number between backquotes
UnexpectedNumber(n) ==
    IF n.k = "OutOfRange" THEN << >>
    ELSE IF n.k = "F64" THEN <<Lit("floating point"), Quoted(DisplayF64(n.f))>>
    ELSE <<Lit("integer"), Quoted(DisplayInt(n.n))>>

\* the same of the sample documents' numbers, computed once
UnexpectedPairTokens == [s \in PairTokens |-> UnexpectedNumber(ParsedPairTokens[s])]

UnexpectedToken(s) ==
    IF s \in PairTokens THEN UnexpectedPairTokens[s] ELSE UnexpectedNumber(ParseToken(s))

\* serde's Unexpected of a value; of a boolean the model has the kind only
Unexpected(j) ==
    CASE j.t = "num" -> UnexpectedToken(j.s)
      [] j.t = "str" -> <<Lit("string"), Quoted(j.s)>>
      [] j.t = "null" -> <<Lit("null"), Quoted(<< >>)>>
      [] j.t = "bool" -> <<Lit("boolean"), Quoted(<< >>)>>
      [] j.t = "arr" -> <<Lit("sequence"), Quoted(<< >>)>>
      [] j.t = "obj" -> <<Lit("map"), Quoted(<< >>)>>
      [] j.t = "absent" -> << >>

\* a value as the deserializer meets it: [t, s] with the parse of a number
\* token (n) and serde's Unexpected of the value (u)
ReadValue(j) ==
    [t |-> j.t, s |-> j.s,
     n |-> IF j.t = "num" THEN ParserNumber(j.s) ELSE NumOutOfRange,
     u |-> Unexpected(j)]

\* a document as the deserializer meets it
ReadDocument(doc) == [path \in DOMAIN doc |-> ReadValue(doc[path])]

\* serde_json's peek_invalid_type on a value read: a number is parsed before
\* it is refused, and a token beyond f64 fails in the parser
Refused(v, expected) ==
    IF v.t = "num" /\ v.n.k = "OutOfRange" THEN OutOfRange
    ELSE Err("invalid_type",
             <<Lit("invalid type: ")>> \o v.u \o <<Lit(", expected "), Lit(expected)>>)

InvalidType(j, expected) == Refused(ReadValue(j), expected)

\* a field that lost its #[serde(default)]: missing, it is an error
FieldWithoutDefault(doc, path, decoded, dflt) ==
    IF doc[path].t = "absent"
    THEN [present |-> FALSE,
          r |-> Err("missing_field", <<Lit("missing field "), Lit(path[Len(path)])>>)]
    ELSE [present |-> TRUE, r |-> decoded]

\* a field of a derived struct: decoded is the decode of the value at path,
\* used when there is one; dflt is Ok(default) under #[serde(default)], the
\* missing-field error otherwise
Field(doc, path, decoded, dflt) ==
    IF doc[path].t = "absent" THEN [present |-> FALSE, r |-> dflt]
    ELSE [present |-> TRUE, r |-> decoded]

\* a field under #[serde(default)]: nothing when it is missing
NotRequired(path) == Ok(None)

\* a field without #[serde(default)]: serde's missing-field error
Required(path) == MissingField(path[Len(path)])

SetMin(S) == CHOOSE x \in S : \A y \in S : x <= y

\* a derived struct's visit_map: the first failure among the members the
\* object has, in the object's order (visited), else the first among the
\* fields it lacks, in the struct's order (fields), else Ok(value)
StructResult(fields, visited, value) ==
    LET badPresent == {i \in DOMAIN visited : visited[i].present /\ visited[i].r.st # "ok"}
        badMissing == {i \in DOMAIN fields : ~fields[i].present /\ fields[i].r.st # "ok"}
    IN  IF badPresent # {} THEN visited[SetMin(badPresent)].r
        ELSE IF badMissing # {} THEN fields[SetMin(badMissing)].r
        ELSE Ok(value)

\* serde's invalid_length: the elements a sequence had, and what was expected
InvalidLength(n, expected) ==
    Err("invalid_length",
        <<Lit("invalid length "), Quoted(Decimal(n)), Lit(", expected "), Lit(expected)>>)

\* a derived struct's visit_seq on the empty array: every field lacks its
\* element and takes its #[serde(default)] (missing is what each field is
\* without its member, in the struct's order); the first field without one
\* is the error
EmptySeqResult(missing, expected, value) ==
    LET bad == {i \in DOMAIN missing : missing[i].st # "ok"}
    IN  IF bad # {} THEN InvalidLength(SetMin(bad) - 1, expected) ELSE Ok(value)

\* the fields below are decoded from a document read (ReadDocument)
\* a String field
String(doc, path) ==
    LET j == doc[path] IN IF j.t = "str" THEN Ok(j.s) ELSE Refused(j, "a string")

\* an i64 field (models.rs 127, 129)
IntegerOrInvalid(j, n) ==
    IF n.k = "OutOfRange" THEN OutOfRange
    ELSE IF n.k = "F64" THEN Refused(j, "i64")
    ELSE Ok(n.n)

I64(doc, path) ==
    IF doc[path].t # "num" THEN Refused(doc[path], "i64")
    ELSE IntegerOrInvalid(doc[path], doc[path].n)

\* an Option<f64> field without deserialize_with (models.rs 236-237)
NumberAsF64(n) ==
    IF n.k = "OutOfRange" THEN OutOfRange
    ELSE IF n.k = "F64" THEN Ok(Some(n.f))
    ELSE Ok(Some(IntAsF64(n.n)))

OptionF64(doc, path) ==
    IF doc[path].t = "null" THEN Ok(None)
    ELSE IF doc[path].t # "num" THEN Refused(doc[path], "f64")
    ELSE NumberAsF64(doc[path].n)

\* an Option<Vec<String>> field (models.rs 207-208)
OptionLabels(doc, path) ==
    LET j == doc[path]
    IN  IF j.t = "null" THEN Ok("none")
        ELSE IF j.t = "arr" THEN Ok("some")
        ELSE Refused(j, "a sequence")

\* the three field decoders, as fields of a struct
StringOrNumber(doc, path) == string_or_number(ContentOf(doc[path], doc[path].n))

OptionalStringOrNumber(doc, path) ==
    optional_string_or_number(ContentOf(doc[path], doc[path].n))

TimestampToDatetime(doc, path) == timestamp_to_datetime(ContentOf(doc[path], doc[path].n))

\* models.rs 113-121
BaseToken(doc, path) ==
    IF doc[path].t = "arr"
    THEN EmptySeqResult(<<Required(<<"address">>), Required(<<"name">>), Required(<<"symbol">>)>>,
                        "struct BaseToken with 3 elements",
                        [address |-> << >>, name |-> << >>, symbol |-> << >>])
    ELSE IF doc[path].t # "obj" THEN Refused(doc[path], "struct BaseToken")
    ELSE LET address == Field(doc, Append(path, "address"), String(doc, Append(path, "address")),
                              Required(<<"address">>))
             name    == Field(doc, Append(path, "name"), String(doc, Append(path, "name")),
                              Required(<<"name">>))
             symbol  == Field(doc, Append(path, "symbol"), String(doc, Append(path, "symbol")),
                              Required(<<"symbol">>))
         IN  StructResult(<<address, name, symbol>>, <<address, name, symbol>>,
                 [address |-> address.r.val, name |-> name.r.val, symbol |-> symbol.r.val])

\* a TransactionCount whose buys and sells default to 0
TransactionCountDefaulted(doc, path) ==
    IF doc[path].t = "arr"
    THEN EmptySeqResult(<<Ok(IntZero), Ok(IntZero)>>, "struct TransactionCount with 2 elements",
                        [buys |-> IntZero, sells |-> IntZero])
    ELSE IF doc[path].t # "obj" THEN Refused(doc[path], "struct TransactionCount")
    ELSE LET buys  == Field(doc, Append(path, "buys"), I64(doc, Append(path, "buys")),
                            Ok(IntZero))
             sells == Field(doc, Append(path, "sells"), I64(doc, Append(path, "sells")),
                            Ok(IntZero))
         IN  StructResult(<<buys, sells>>, <<buys, sells>>,
                 [buys |-> buys.r.val, sells |-> sells.r.val])

\* models.rs 124-130
TransactionCount(doc, path) ==
    IF doc[path].t = "arr"
    THEN EmptySeqResult(<<Required(<<"buys">>), Required(<<"sells">>)>>,
                        "struct TransactionCount with 2 elements",
                        [buys |-> IntZero, sells |-> IntZero])
    ELSE IF doc[path].t # "obj" THEN Refused(doc[path], "struct TransactionCount")
    ELSE LET buys  == Field(doc, Append(path, "buys"), I64(doc, Append(path, "buys")),
                            Required(<<"buys">>))
             sells == Field(doc, Append(path, "sells"), I64(doc, Append(path, "sells")),
                            Required(<<"sells">>))
         IN  StructResult(<<buys, sells>>, <<buys, sells>>,
                 [buys |-> buys.r.val, sells |-> sells.r.val])

\* models.rs 133-143
PairTransactionCounts(doc, path) ==
    IF doc[path].t = "arr"
    THEN EmptySeqResult(<<Required(<<"m5">>), Required(<<"h1">>), Required(<<"h6">>),
                          Required(<<"h24">>)>>,
                        "struct PairTransactionCounts with 4 elements",
                        [m5 |-> None, h1 |-> None, h6 |-> None, h24 |-> None])
    ELSE IF doc[path].t # "obj" THEN Refused(doc[path], "struct PairTransactionCounts")
    ELSE LET m5  == Field(doc, Append(path, "m5"), TransactionCount(doc, Append(path, "m5")),
                          Required(<<"m5">>))
             h1  == Field(doc, Append(path, "h1"), TransactionCount(doc, Append(path, "h1")),
                          Required(<<"h1">>))
             h6  == Field(doc, Append(path, "h6"), TransactionCount(doc, Append(path, "h6")),
                          Required(<<"h6">>))
             h24 == Field(doc, Append(path, "h24"), TransactionCount(doc, Append(path, "h24")),
                          Required(<<"h24">>))
         IN  StructResult(<<m5, h1, h6, h24>>, <<h1, h24, h6, m5>>,
                 [m5 |-> m5.r.val, h1 |-> h1.r.val, h6 |-> h6.r.val, h24 |-> h24.r.val])

\* a window without #[serde(default)]
WithoutDefault == MissingField("m5")

\* f64::default(), the value of #[serde(default)] at models.rs 151, 155, 159, 163
DefaultF64 == Ok(Some(F64Zero(FALSE)))

\* models.rs 148-166
TimePeriodsFloat(doc, path) ==
    IF doc[path].t = "arr"
    THEN EmptySeqResult(<<DefaultF64, DefaultF64, DefaultF64, DefaultF64>>,
                        "struct TimePeriodsFloat with 4 elements",
                        [m5 |-> DefaultF64.val, h1 |-> DefaultF64.val,
                         h6 |-> DefaultF64.val, h24 |-> DefaultF64.val])
    ELSE IF doc[path].t # "obj" THEN Refused(doc[path], "struct TimePeriodsFloat")
    ELSE LET m5  == Field(doc, Append(path, "m5"), StringOrNumber(doc, Append(path, "m5")),
                          DefaultF64)
             h1  == Field(doc, Append(path, "h1"), StringOrNumber(doc, Append(path, "h1")),
                          DefaultF64)
             h6  == Field(doc, Append(path, "h6"), StringOrNumber(doc, Append(path, "h6")),
                          DefaultF64)
             h24 == Field(doc, Append(path, "h24"), StringOrNumber(doc, Append(path, "h24")),
                          DefaultF64)
         IN  StructResult(<<m5, h1, h6, h24>>, <<h1, h24, h6, m5>>,
                 [m5 |-> m5.r.val, h1 |-> h1.r.val, h6 |-> h6.r.val, h24 |-> h24.r.val])

\* models.rs 175-187
Liquidity(doc, path) ==
    IF doc[path].t = "arr"
    THEN EmptySeqResult(<<Ok(None), Required(<<"base">>), Required(<<"quote">>)>>,
                        "struct Liquidity with 3 elements",
                        [some |-> TRUE, usd |-> None, base |-> None, quote |-> None])
    ELSE IF doc[path].t # "obj" THEN Refused(doc[path], "struct Liquidity")
    ELSE LET usd   == Field(doc, Append(path, "usd"), OptionalStringOrNumber(doc, Append(path, "usd")),
                            Ok(None))
             base  == Field(doc, Append(path, "base"), StringOrNumber(doc, Append(path, "base")),
                            Required(<<"base">>))
             quote == Field(doc, Append(path, "quote"), StringOrNumber(doc, Append(path, "quote")),
                            Required(<<"quote">>))
         IN  StructResult(<<usd, base, quote>>, <<base, quote, usd>>,
                 [some |-> TRUE, usd |-> usd.r.val, base |-> base.r.val,
                  quote |-> quote.r.val])

NoLiquidity == [some |-> FALSE, usd |-> None, base |-> None, quote |-> None]

\* the Option<Liquidity> field (models.rs 233-234)
OptionLiquidity(doc, path) ==
    IF doc[path].t = "null" THEN Ok(NoLiquidity) ELSE Liquidity(doc, path)

\* models.rs 193-248, on a document read
TokenPairOf(doc) ==
    LET chain_id     == Field(doc, <<"chainId">>, String(doc, <<"chainId">>),
                              Required(<<"chainId">>))
        dex_id       == Field(doc, <<"dexId">>, String(doc, <<"dexId">>), Required(<<"dexId">>))
        url          == Field(doc, <<"url">>, String(doc, <<"url">>), Required(<<"url">>))
        pair_address == Field(doc, <<"pairAddress">>, String(doc, <<"pairAddress">>),
                              Required(<<"pairAddress">>))
        labels       == Field(doc, <<"labels">>, OptionLabels(doc, <<"labels">>), Ok("none"))
        base_token   == Field(doc, <<"baseToken">>, BaseToken(doc, <<"baseToken">>),
                              Required(<<"baseToken">>))
        quote_token  == Field(doc, <<"quoteToken">>, BaseToken(doc, <<"quoteToken">>),
                              Required(<<"quoteToken">>))
        price_native == Field(doc, <<"priceNative">>, StringOrNumber(doc, <<"priceNative">>),
                              Required(<<"priceNative">>))
        price_usd    == Field(doc, <<"priceUsd">>, OptionalStringOrNumber(doc, <<"priceUsd">>),
                              Ok(None))
        transactions == Field(doc, <<"txns">>, PairTransactionCounts(doc, <<"txns">>),
                              Required(<<"txns">>))
        volume       == Field(doc, <<"volume">>, TimePeriodsFloat(doc, <<"volume">>),
                              Required(<<"volume">>))
        price_change == Field(doc, <<"priceChange">>, TimePeriodsFloat(doc, <<"priceChange">>),
                              Required(<<"priceChange">>))
        liquidity    == Field(doc, <<"liquidity">>, OptionLiquidity(doc, <<"liquidity">>),
                              Ok(NoLiquidity))
        fdv          == Field(doc, <<"fdv">>, OptionF64(doc, <<"fdv">>), Ok(None))
        market_cap   == Field(doc, <<"marketCap">>, OptionalStringOrNumber(doc, <<"marketCap">>),
                              Ok(None))
        pair_created_at == Field(doc, <<"pairCreatedAt">>, TimestampToDatetime(doc, <<"pairCreatedAt">>),
                                 Ok(None))
    IN  StructResult(
            <<chain_id, dex_id, url, pair_address, labels, base_token, quote_token,
              price_native, price_usd, transactions, volume, price_change, liquidity,
              fdv, market_cap, pair_created_at>>,
            <<base_token, chain_id, dex_id, fdv, labels, liquidity, market_cap, pair_address,
              pair_created_at, price_change, price_native, price_usd, quote_token,
              transactions, url, volume>>,
            [chain_id |-> chain_id.r.val, dex_id |-> dex_id.r.val, url |-> url.r.val,
             pair_address |-> pair_address.r.val, labels |-> labels.r.val,
             base_token |-> base_token.r.val, quote_token |-> quote_token.r.val,
             price_native |-> price_native.r.val, price_usd |-> price_usd.r.val,
             transactions |-> transactions.r.val, volume |-> volume.r.val,
             price_change |-> price_change.r.val, liquidity |-> liquidity.r.val,
             fdv |-> fdv.r.val, market_cap |-> market_cap.r.val,
             pair_created_at |-> pair_created_at.r.val])

\* serde_json::from_value::<TokenPair>
TokenPair(doc) == TokenPairOf(ReadDocument(doc))

(***************************************************************************)
(* Input documents.  FullPair is the object of test_token_pair_            *)
(* deserialization (tests/models_test.rs 198-242) and MinimalPair that of  *)
(* test_token_pair_with_missing_optional_fields (390-426), with the free   *)
(* text shortened and fdv and marketCap scaled to nine digits.             *)
(***************************************************************************)
FullPair ==
       (<<"chainId">> :> JStr(<<"e","t","h">>))
    @@ (<<"dexId">> :> JStr(<<"u","n","i">>))
    @@ (<<"url">> :> JStr(<<"u">>))
    @@ (<<"pairAddress">> :> JStr(<<"0","x","1","2","3","4">>))
    @@ (<<"labels">> :> JArr)
    @@ (<<"baseToken">> :> JObj)
    @@ (<<"baseToken", "address">> :> JStr(<<"0","x","a","b","c">>))
    @@ (<<"baseToken", "name">> :> JStr(<<"E","t","h">>))
    @@ (<<"baseToken", "symbol">> :> JStr(<<"E","T","H">>))
    @@ (<<"quoteToken">> :> JObj)
    @@ (<<"quoteToken", "address">> :> JStr(<<"0","x","d","e","f">>))
    @@ (<<"quoteToken", "name">> :> JStr(<<"U","S","D">>))
    @@ (<<"quoteToken", "symbol">> :> JStr(<<"U","S","D","C">>))
    @@ (<<"priceNative">> :> JStr(<<"3","0","0","0",".","5">>))
    @@ (<<"priceUsd">> :> JNum(<<"3","0","0","0",".","5">>))
    @@ (<<"txns">> :> JObj)
    @@ (<<"txns", "m5">> :> JObj)
    @@ (<<"txns", "m5", "buys">> :> JNum(<<"1","0">>))
    @@ (<<"txns", "m5", "sells">> :> JNum(<<"5">>))
    @@ (<<"txns", "h1">> :> JObj)
    @@ (<<"txns", "h1", "buys">> :> JNum(<<"6","0">>))
    @@ (<<"txns", "h1", "sells">> :> JNum(<<"3","0">>))
    @@ (<<"txns", "h6">> :> JObj)
    @@ (<<"txns", "h6", "buys">> :> JNum(<<"3","6","0">>))
    @@ (<<"txns", "h6", "sells">> :> JNum(<<"1","8","0">>))
    @@ (<<"txns", "h24">> :> JObj)
    @@ (<<"txns", "h24", "buys">> :> JNum(<<"1","4","4","0">>))
    @@ (<<"txns", "h24", "sells">> :> JNum(<<"7","2","0">>))
    @@ (<<"volume">> :> JObj)
    @@ (<<"volume", "m5">> :> JStr(<<"1","0","0","0",".","5">>))
    @@ (<<"volume", "h1">> :> JNum(<<"6","0","0","0",".","2","5">>))
    @@ (<<"volume", "h6">> :> JStr(<<"3","6","0","0","0",".","7","5">>))
    @@ (<<"volume", "h24">> :> JNum(<<"1","4","4","0","0","0",".","5">>))
    @@ (<<"priceChange">> :> JObj)
    @@ (<<"priceChange", "m5">> :> JNum(<<"0",".","1">>))
    @@ (<<"priceChange", "h1">> :> JStr(<<"1",".","0">>))
    @@ (<<"priceChange", "h6">> :> JNum(<<"2",".","0">>))
    @@ (<<"priceChange", "h24">> :> JStr(<<"5",".","0">>))
    @@ (<<"liquidity">> :> JObj)
    @@ (<<"liquidity", "usd">> :> JStr(<<"1","0","0","0","0","0","0","0",".","5">>))
    @@ (<<"liquidity", "base">> :> JNum(<<"1","0","0","0",".","2","5">>))
    @@ (<<"liquidity", "quote">> :> JStr(<<"3","0","0","0","0","0","0",".","7","5">>))
    @@ (<<"fdv">> :> JNum(<<"5","0","0","0","0","0","0",".","5">>))
    @@ (<<"marketCap">> :> JStr(<<"2","5","0","0","0","0","0",".","2","5">>))
    @@ (<<"pairCreatedAt">> :> JNum(<<"1","6","2","0","2","5","0","9","3","1","0","0","0">>))

MinimalPair ==
       (<<"chainId">> :> JStr(<<"e","t","h">>))
    @@ (<<"dexId">> :> JStr(<<"u","n","i">>))
    @@ (<<"url">> :> JStr(<<"u">>))
    @@ (<<"pairAddress">> :> JStr(<<"0","x","1","2","3","4">>))
    @@ (<<"labels">> :> JAbsent)
    @@ (<<"baseToken">> :> JObj)
    @@ (<<"baseToken", "address">> :> JStr(<<"0","x","a","b","c">>))
    @@ (<<"baseToken", "name">> :> JStr(<<"E","t","h">>))
    @@ (<<"baseToken", "symbol">> :> JStr(<<"E","T","H">>))
    @@ (<<"quoteToken">> :> JObj)
    @@ (<<"quoteToken", "address">> :> JStr(<<"0","x","d","e","f">>))
    @@ (<<"quoteToken", "name">> :> JStr(<<"U","S","D">>))
    @@ (<<"quoteToken", "symbol">> :> JStr(<<"U","S","D","C">>))
    @@ (<<"priceNative">> :> JNum(<<"3","0","0","0",".","5">>))
    @@ (<<"priceUsd">> :> JAbsent)
    @@ (<<"txns">> :> JObj)
    @@ (<<"txns", "m5">> :> JObj)
    @@ (<<"txns", "m5", "buys">> :> JNum(<<"1","0">>))
    @@ (<<"txns", "m5", "sells">> :> JNum(<<"5">>))
    @@ (<<"txns", "h1">> :> JObj)
    @@ (<<"txns", "h1", "buys">> :> JNum(<<"6","0">>))
    @@ (<<"txns", "h1", "sells">> :> JNum(<<"3","0">>))
    @@ (<<"txns", "h6">> :> JObj)
    @@ (<<"txns", "h6", "buys">> :> JNum(<<"3","6","0">>))
    @@ (<<"txns", "h6", "sells">> :> JNum(<<"1","8","0">>))
    @@ (<<"txns", "h24">> :> JObj)
    @@ (<<"txns", "h24", "buys">> :> JNum(<<"1","4","4","0">>))
    @@ (<<"txns", "h24", "sells">> :> JNum(<<"7","2","0">>))
    @@ (<<"volume">> :> JObj)
    @@ (<<"volume", "m5">> :> JNum(<<"1","0","0","0",".","5">>))
    @@ (<<"volume", "h1">> :> JNum(<<"6","0","0","0",".","2","5">>))
    @@ (<<"volume", "h6">> :> JNum(<<"3","6","0","0","0",".","7","5">>))
    @@ (<<"volume", "h24">> :> JNum(<<"1","4","4","0","0","0",".","5">>))
    @@ (<<"priceChange">> :> JObj)
    @@ (<<"priceChange", "m5">> :> JNum(<<"0",".","1">>))
    @@ (<<"priceChange", "h1">> :> JNum(<<"1",".","0">>))
    @@ (<<"priceChange", "h6">> :> JNum(<<"2",".","0">>))
    @@ (<<"priceChange", "h24">> :> JNum(<<"5",".","0">>))
    @@ (<<"liquidity">> :> JAbsent)
    @@ (<<"liquidity", "usd">> :> JAbsent)
    @@ (<<"liquidity", "base">> :> JAbsent)
    @@ (<<"liquidity", "quote">> :> JAbsent)
    @@ (<<"fdv">> :> JAbsent)
    @@ (<<"marketCap">> :> JAbsent)
    @@ (<<"pairCreatedAt">> :> JAbsent)

(***************************************************************************)
(* Moments and their renderings: the inputs of the timestamp decoder that  *)
(* name one instant in several encodings.  A moment is [secs, ms], the     *)
(* epoch second (floor) and the milliseconds past it.                      *)
(***************************************************************************)
MomentSecs == {-86401, -86400, -1, 0, 1, 59, 951782400, 1620250931}

MomentMillis == {0, 1, 250, 999}

Moments == [secs : MomentSecs, ms : MomentMillis]

\* the civil date of the day z days after 1970-01-01
CivilFromDays(z) ==
    LET zz  == z + 719468
        era == zz \div 146097
        doe == zz - era * 146097
        yoe == (doe - doe \div 1460 + doe \div 36524 - doe \div 146096) \div 365
        doy == doe - (365 * yoe + yoe \div 4 - yoe \div 100)
        mp  == (5 * doy + 2) \div 153
        m   == IF mp < 10 THEN mp + 3 ELSE mp - 9
    IN  [y |-> yoe + era * 400 + (IF m <= 2 THEN 1 ELSE 0), m |-> m,
         d |-> doy - (153 * mp + 2) \div 5 + 1]

\* the RFC 3339 text of a moment, in UTC, with milliseconds when it has any
Rfc3339Of(m) ==
    LET c   == CivilFromDays(m.secs \div 86400)
        sod == m.secs % 86400
    IN  Padded(c.y, 4) \o <<"-">> \o Padded(c.m, 2) \o <<"-">> \o Padded(c.d, 2)
        \o <<"T">> \o Padded(sod \div 3600, 2) \o <<":">>
        \o Padded((sod % 3600) \div 60, 2) \o <<":">> \o Padded(sod % 60, 2)
        \o (IF m.ms = 0 THEN << >> ELSE <<".">> \o Padded(m.ms, 3)) \o <<"Z">>

\* the decimal text of a moment's milliseconds since the epoch
MillisOf(m) ==
    IF m.secs >= 0
    THEN IF m.secs = 0 THEN Decimal(m.ms) ELSE Decimal(m.secs) \o Padded(m.ms, 3)
    ELSE LET q == IF m.ms = 0 THEN 0 - m.secs ELSE (0 - m.secs) - 1
             r == IF m.ms = 0 THEN 0 ELSE 1000 - m.ms
         IN  <<"-">> \o (IF q = 0 THEN Decimal(r) ELSE Decimal(q) \o Padded(r, 3))

\* the instant a moment names
InstantOf(m) == Instant(m.secs, m.ms * 1000000)

Encodings == {[m |-> m, rfc |-> Rfc3339Of(m), millis |-> MillisOf(m)] : m \in Moments}

\* further timestamp texts: the strings of tests/models_test.rs 66-81 and
\* variations of them, one per branch of the RFC 3339 parser
TimestampTexts ==
    { <<"2","0","2","1","-","0","5","-","0","5","T","1","2",":","2","2",":","1","1","Z">>,
      <<"2","0","2","1","-","0","5","-","0","5","T","2","1",":","4","2",":","1","1","Z">>,
      <<"2","0","2","1","-","0","5","-","0","5","t","2","1",":","4","2",":","1","1","z">>,
      <<"2","0","2","1","-","0","5","-","0","5"," ","1","2",":","2","2",":","1","1","Z">>,
      <<"2","0","2","1","-","0","5","-","0","5"," ","2","1",":","4","2",":","1","1","+","0","2",":","0","0">>,
      <<"2","0","2","1","-","0","5","-","0","5","_","1","2",":","2","2",":","1","1","Z">>,
      <<"2","0","2","1","-","0","5","-","0","5","T","2","3",":","4","2",":","1","1","+","0","2",":","0","0">>,
      <<"2","0","2","1","-","0","5","-","0","5","T","2","1",":","4","2",":","1","1",".","2","5","Z">>,
      <<"2","0","2","1","-","0","5","-","0","5","T","2","1",":","4","2",":","1","1",".","1","2","3","4","5","6","7","8","9","1","Z">>,
      <<"2","0","2","1","-","0","5","-","0","5","T","2","1",":","4","2",":","1","1">>,
      <<"2","0","2","1","-","1","3","-","0","5","T","2","1",":","4","2",":","1","1","Z">>,
      <<"2","0","2","1","-","0","2","-","2","9","T","0","0",":","0","0",":","0","0","Z">>,
      <<"2","0","2","0","-","0","2","-","2","9","T","0","0",":","0","0",":","0","0","Z">>,
      <<"2","0","1","6","-","1","2","-","3","1","T","2","3",":","5","9",":","6","0","Z">>,
      <<"2","0","2","1","-","0","5","-","0","5","T","2","1",":","4","2",":","1","1","Z","x">>,
      <<"2","0","2","1","-","0","5","-","0","5">>,
      <<"2","0","2","1","-","0","5","-","0","5","T","2","1",":","4","2",":","1","1",".","Z">>,
      <<"2","0","2","1","-","0","5","-","0","5","T","2","4",":","0","0",":","0","0","Z">>,
      <<"2","0","2","1","-","0","5","-","0","5","T","2","1",":","4","2",":","1","1","+","0","2","0","0">>,
      <<"2","0","2","1","-","0","5","-","0","5","T","2","1",":","4","2",":","1","1",MinusSign,"0","1",":","0","0">>,
      <<MinusSign,"5">>,
      <<"1","6","2","0","2","5","0","9","3","1","0","0","0">>,
      <<"-","1","6","2","0","2","5","0","9","3","1","0","0","0">>,
      <<"+","5">>,
      <<"1","6","2","0","2","5","0",".","5">>,
      <<"1",".","5","e","3">> }

\* strings of digits one past either end of i64, and one followed by a letter
OverflowTexts ==
    { I64MinDigits, <<"-">> \o I64MinDigits \o <<"0">>,
      <<"0","0">> \o I64MinDigits \o <<"x">>, <<"-","0">> \o I64MaxDigits \o <<"9">> }

(***************************************************************************)
(* The decode of one field.  `decoder` names the field's attributes:       *)
(*   "mandatory"  deserialize_with string_or_number   (models.rs 216-218)  *)
(*   "window"     the same under #[serde(default)]    (models.rs 151-153)  *)
(*   "optional"   optional_string_or_number, default  (models.rs 220-223)  *)
(*   "timestamp"  timestamp_to_datetime, default      (models.rs 244-247)  *)
(***************************************************************************)
NumberDecoders == {"mandatory", "window", "optional"}

FieldDoc(j) == (<<"value">> :> j)

DecodeField(kind, j) ==
    CASE kind = "mandatory" ->
             Field(FieldDoc(j), <<"value">>, deserialize_string_or_number(j),
                   Required(<<"value">>)).r
      [] kind = "window" ->
             Field(FieldDoc(j), <<"value">>, deserialize_string_or_number(j),
                   DefaultF64).r
      [] kind = "optional" ->
             Field(FieldDoc(j), <<"value">>, deserialize_optional_string_or_number(j),
                   Ok(None)).r
      [] kind = "timestamp" ->
             Field(FieldDoc(j), <<"value">>, deserialize_timestamp_to_datetime(j),
                   Ok(None)).r

\* the JSON values that are not numbers or strings
OtherValues == {JAbsent, JNull, JBool, JArr, JObj}

\* decimals of seven digits in the decades of f64's two ends, on either
\* side of 2^1024 - 2^970 and of 2^-1075
ThresholdTexts ==
    { <<"1",".","7","9","7","6","9","4","e","3","0","8">>,
      <<"-","1",".","7","9","7","6","9","4","e","3","0","8">>,
      <<"1",".","7","9","7","6","9","3","e","3","0","8">>,
      <<"2",".","4","7","0","3","2","9","e","-","3","2","4">>,
      <<"2",".","4","7","0","3","2","8","e","-","3","2","4">>,
      <<"1","7","9","7","6","9","3","2","e","3","0","1">> }

NumberTexts == Texts \cup SampleTexts \cup ThresholdTexts

NumberInputs ==
    {JStr(s) : s \in NumberTexts}
    \cup {JNum(s) : s \in {x \in NumberTexts : IsJsonNumber(x)}}
    \cup OtherValues

AllTimestampTexts ==
    NumberTexts \cup TimestampTexts \cup {e.rfc : e \in Encodings}
    \cup {e.millis : e \in Encodings}

TimestampInputs ==
    {JStr(s) : s \in AllTimestampTexts \cup OverflowTexts}
    \cup {JNum(s) : s \in {x \in AllTimestampTexts : IsJsonNumber(x)}}
    \cup OtherValues

(***************************************************************************)
(* Documents derived from the two test objects by replacing fields.        *)
(***************************************************************************)
\* replacements of one field allowed on the way to a document
MaxEdits == 2

Objects ==
    {<<"baseToken">>, <<"quoteToken">>, <<"txns">>, <<"txns", "m5">>, <<"txns", "h1">>,
     <<"txns", "h6">>, <<"txns", "h24">>, <<"volume">>, <<"priceChange">>, <<"liquidity">>}

Strings ==
    {<<"chainId">>, <<"dexId">>, <<"url">>, <<"pairAddress">>}
    \cup {Append(p, f) : p \in {<<"baseToken">>, <<"quoteToken">>},
                         f \in {"address", "name", "symbol"}}

Counts ==
    {Append(p, f) : p \in {<<"txns", "m5">>, <<"txns", "h1">>, <<"txns", "h6">>,
                           <<"txns", "h24">>},
                    f \in {"buys", "sells"}}

Windows == {"m5", "h1", "h6", "h24"}

WindowFields == {Append(p, w) : p \in {<<"volume">>, <<"priceChange">>}, w \in Windows}

MandatoryFields == {<<"priceNative">>, <<"liquidity", "base">>, <<"liquidity", "quote">>}

OptionalFields == {<<"priceUsd">>, <<"liquidity", "usd">>, <<"fdv">>, <<"marketCap">>}

FloatFields == MandatoryFields \cup WindowFields \cup OptionalFields

Paths == DOMAIN FullPair

\* the values a field may be replaced by
Replacements(path) ==
    IF path \in Objects THEN {JAbsent, JNull, JArr}
    ELSE IF path \in Strings THEN {JAbsent, JNum(<<"0">>)}
    ELSE IF path = <<"labels">> THEN {JAbsent, JNull, JStr(<<"x">>)}
    ELSE IF path \in Counts THEN {JAbsent, JNum(<<"-","1">>), JNum(<<"1",".","5">>)}
    ELSE {JAbsent, JNull, JBool, JStr(<< >>), JStr(<<"x">>), JStr(<<"1",".","5">>),
          JNum(<<"1",".","5">>)}

\* the same number in the other encoding: a number as the string of its
\* token, a string that is a JSON number as that number
Reencoded(j) ==
    IF j.t = "num" THEN JStr(j.s)
    ELSE IF j.t = "str" /\ IsJsonNumber(j.s) THEN JNum(j.s)
    ELSE j

(***************************************************************************)
(* The client (src/src/client.rs).  A URL is the sequence of the pieces    *)
(* format! puts together.  A response body is [t, elems, pairs, code,      *)
(* message]: an array of pair objects (elems), an object with its members  *)
(* pairs, code and message, or text that is not JSON.  A pair object of a  *)
(* body is named, PairDoc giving its document.                             *)
(***************************************************************************)
\* lib.rs 78
API_BASE_URL == "https://api.dexscreener.com"

\* the literal of client.rs 210
MaxTokenAddresses == 30

\* calls made on the client
MaxCalls == 2

\* most pairs in one response body
MaxPairs == 2

\* a join that leaves out an item that comes again later
RECURSIVE join_deduplicated(_, _)
join_deduplicated(items, sep) ==
    IF Len(items) = 0 THEN << >>
    ELSE IF Len(items) = 1 THEN <<items[1]>>
    ELSE IF items[1] \in {items[i] : i \in 2..Len(items)}
    THEN join_deduplicated(Tail(items), sep)
    ELSE <<items[1], sep>> \o join_deduplicated(Tail(items), sep)

\* str::join, as called at client.rs 216
RECURSIVE join(_, _)
join(items, sep) ==
    IF Len(items) = 0 THEN << >>
    ELSE IF Len(items) = 1 THEN <<items[1]>>
    ELSE <<items[1], sep>> \o join(Tail(items), sep)

\* a pair object without its mandatory priceNative
BrokenPair == [MinimalPair EXCEPT ![<<"priceNative">>] = JAbsent]

\* a pair object created one millisecond before the epoch
PanickingPair == [MinimalPair EXCEPT ![<<"pairCreatedAt">>] = JNum(<<"-","1">>)]

PairNames == {"full", "minimal", "broken", "panicking"}

PairDoc(name) ==
    CASE name = "full" -> FullPair [] name = "minimal" -> MinimalPair
      [] name = "broken" -> BrokenPair [] name = "panicking" -> PanickingPair

\* the decode of each pair object, TokenPair applied to its document
DecodedPair == [name \in PairNames |-> TokenPair(PairDoc(name))]

RECURSIVE PairListsOfLen(_)
PairListsOfLen(n) ==
    IF n = 0 THEN {<< >>}
    ELSE {Append(l, p) : l \in PairListsOfLen(n - 1), p \in PairNames}

PairLists == UNION {PairListsOfLen(n) : n \in 0..MaxPairs}

\* a member of a JSON object that holds pairs: absent, null or an array
NoMember == [t |-> "absent", elems |-> << >>]

NullMember == [t |-> "null", elems |-> << >>]

ArrayMember(elems) == [t |-> "arr", elems |-> elems]

ArrayBody(elems) ==
    [t |-> "arr", elems |-> elems, pairs |-> NoMember, code |-> JAbsent, message |-> JAbsent]

ObjectBody(pairs, code, message) ==
    [t |-> "obj", elems |-> << >>, pairs |-> pairs, code |-> code, message |-> message]

TextBody ==
    [t |-> "text", elems |-> << >>, pairs |-> NoMember, code |-> JAbsent, message |-> JAbsent]

Codes == {JAbsent, JNull, JStr(<<"E","1">>), JNum(<<"1">>)}

Messages == {JAbsent, JNull, JStr(<<"n","o">>)}

Bodies ==
    {ArrayBody(l) : l \in PairLists}
    \cup {ObjectBody(ArrayMember(l), JAbsent, JAbsent) : l \in PairLists}
    \cup {ObjectBody(NullMember, JAbsent, JAbsent)}
    \cup {ObjectBody(NoMember, c, JStr(<<"n","o">>)) : c \in Codes}
    \cup {ObjectBody(NoMember, JStr(<<"E","1">>), m) : m \in Messages}
    \cup {ObjectBody(ArrayMember(<<"minimal">>), JStr(<<"E","1">>), JStr(<<"n","o">>))}
    \cup {TextBody}

\* HTTP statuses the transport answers with
Statuses == {200, 404}

\* what the transport does with a request: it fails it (Failure), or it
\* answers with a status and then delivers the body (Response) or fails
\* while the body is read (Lost); StatusOnly is the answer between the two
Failure == [t |-> "failure", status |-> 0, body |-> TextBody]

StatusOnly(status) == [t |-> "status", status |-> status, body |-> TextBody]

Lost(status) == [t |-> "lost", status |-> status, body |-> TextBody]

Response(status, body) == [t |-> "response", status |-> status, body |-> body]

NoAnswer == [t |-> "none", status |-> 0, body |-> TextBody]

\* what json().await may find once the status is there
BodyAnswers(status) == {Lost(status)} \cup {Response(status, b) : b \in Bodies}

(***************************************************************************)
(* Outcomes of an operation: Result<PairResponse, DexScreenerError>, as    *)
(* [st, kind, cause, pairs, code, message].  kind is the variant of        *)
(* DexScreenerError (errors.rs 33-50); cause tells the reqwest::Error of   *)
(* send() from those of json(): the body not read, the body not decoded.   *)
(***************************************************************************)
NoCode == [some |-> FALSE, s |-> << >>]

SomeCode(s) == [some |-> TRUE, s |-> s]

NoOutcome ==
    [st |-> "none", kind |-> "none", cause |-> "none", pairs |-> << >>,
     code |-> NoCode, message |-> << >>]

\* Ok(PairResponse { pairs })
OkPairs(pairs) == [NoOutcome EXCEPT !.st = "ok", !.pairs = pairs]

\* DexScreenerError::ReqwestError, by `?` on a reqwest::Error (errors.rs 37)
ReqwestError(cause) == [NoOutcome EXCEPT !.st = "err", !.kind = "ReqwestError", !.cause = cause]

\* DexScreenerError::ApiError(ErrorResponse { code, message })
ApiError(code, message) ==
    [NoOutcome EXCEPT !.st = "err", !.kind = "ApiError", !.code = code, !.message = message]

\* DexScreenerError::new(message), errors.rs 66-68
Other(message) == [NoOutcome EXCEPT !.st = "err", !.kind = "Other", !.message = message]

\* a panic while the body is decoded
Panicked == [NoOutcome EXCEPT !.st = "panic"]

(***************************************************************************)
(* Response::json::<T>() for the three T of the client, as [st, pairs,     *)
(* code, message]: "ok" with the decoded T, or "err" (a reqwest::Error).   *)
(***************************************************************************)
JsonErr == [st |-> "err", pairs |-> << >>, code |-> NoCode, message |-> << >>]

JsonPairs(pairs) == [JsonErr EXCEPT !.st = "ok", !.pairs = pairs]

JsonErrorResponse(code, message) ==
    [JsonErr EXCEPT !.st = "ok", !.code = code, !.message = message]

\* an element's decode succeeded
Decoded(r) == r.st = "ok"

\* the results of the elements that decoded, the others skipped
CollectedDecodable(rs) ==
    JsonPairs([i \in 1..Len(SelectSeq(rs, Decoded)) |-> SelectSeq(rs, Decoded)[i].val])

\* the results of the elements, in order: every element decoded, or no Vec
\* at all; a panic in an element before any error is the panic of the call
Collected(rs) ==
    IF \A i \in DOMAIN rs : rs[i].st = "ok"
    THEN JsonPairs([i \in DOMAIN rs |-> rs[i].val])
    ELSE IF \E i \in DOMAIN rs :
                rs[i].st = "panic" /\ \A k \in 1..(i - 1) : rs[k].st = "ok"
    THEN [JsonErr EXCEPT !.st = "panic"]
    ELSE JsonErr

\* the elements collected last to first
VecReversed(elems) ==
    Collected([i \in 1..Len(elems) |-> DecodedPair[elems[Len(elems) + 1 - i]]])

\* Vec<TokenPair>
VecTokenPair(elems) == Collected([i \in 1..Len(elems) |-> DecodedPair[elems[i]]])

\* a decode that takes the pairs from an array or from an object's pairs
response_json_either(body) ==
    IF body.t = "arr" THEN VecTokenPair(body.elems)
    ELSE IF body.t = "obj" /\ body.pairs.t = "arr" THEN VecTokenPair(body.pairs.elems)
    ELSE JsonErr

\* json::<Vec<TokenPair>>(), client.rs 164 and 223
response_json_vec(body) == IF body.t = "arr" THEN VecTokenPair(body.elems) ELSE JsonErr

\* json::<T>() at client.rs 278, T being PairResponse or SearchResponse
\* (models.rs 263-276): an object with the member pairs, an array
response_json_pairs(body) ==
    IF body.t = "obj" /\ body.pairs.t = "arr" THEN VecTokenPair(body.pairs.elems)
    ELSE JsonErr

\* the code member with the "unknown" of ErrorResponse's Display for no code
CodeOrUnknown(j) ==
    IF j.t = "str" THEN SomeCode(j.s) ELSE SomeCode(<<"u","n","k","n","o","w","n">>)

\* the code member as Option<String> (errors.rs 12)
OptionString(j) == IF j.t = "str" THEN SomeCode(j.s) ELSE NoCode

\* json::<ErrorResponse>(), client.rs 167, 226 and 281 (errors.rs 9-15)
response_json_error(body) ==
    IF /\ body.t = "obj" /\ body.message.t = "str"
       /\ body.code.t \in {"absent", "null", "str"}
    THEN JsonErrorResponse(OptionString(body.code), body.message.s)
    ELSE JsonErr

\* StatusCode::is_success
is_success(status) == status >= 200 /\ status <= 299

\* `?` on the decoded body, then Ok(..): client.rs 164-165, 223-224, 278-279
PairsOrError(j) ==
    IF j.st = "ok" THEN OkPairs(j.pairs)
    ELSE IF j.st = "panic" THEN Panicked
    ELSE ReqwestError("decode")

\* `?` on the decoded failure payload, then Err(ApiError(..)): client.rs
\* 167-168, 226-227, 281-282
ApiErrorOrError(j) ==
    IF j.st = "ok" THEN ApiError(j.code, j.message) ELSE ReqwestError("decode")

\* get_request looking for a failure payload before it looks at the status
get_request_by_payload(answer) ==
    IF answer.t = "failure" THEN ReqwestError("send")
    ELSE IF answer.t = "lost" THEN ReqwestError("body")
    ELSE IF response_json_error(answer.body).st = "ok"
    THEN ApiErrorOrError(response_json_error(answer.body))
    ELSE PairsOrError(response_json_pairs(answer.body))

\* client.rs 275-283, from the transport's answer on: `?` on send(), the
\* status, `?` on json(), which reads the body and then decodes it
get_request(answer) ==
    IF answer.t = "failure" THEN ReqwestError("send")
    ELSE IF answer.t = "lost" THEN ReqwestError("body")
    ELSE IF is_success(answer.status) THEN PairsOrError(response_json_pairs(answer.body))
    ELSE ApiErrorOrError(response_json_error(answer.body))

\* client.rs 160-169, from the transport's answer on
get_pair_by_token_address_answered(answer) ==
    IF answer.t = "failure" THEN ReqwestError("send")
    ELSE IF answer.t = "lost" THEN ReqwestError("body")
    ELSE IF is_success(answer.status) THEN PairsOrError(response_json_vec(answer.body))
    ELSE ApiErrorOrError(response_json_error(answer.body))

\* client.rs 219-228, from the transport's answer on
get_pairs_by_token_addresses_answered(answer) ==
    IF answer.t = "failure" THEN ReqwestError("send")
    ELSE IF answer.t = "lost" THEN ReqwestError("body")
    ELSE IF is_success(answer.status) THEN PairsOrError(response_json_vec(answer.body))
    ELSE ApiErrorOrError(response_json_error(answer.body))

\* the operation's code after its GET is answered
Answered(op, answer) ==
    CASE op = "get_pairs_by_chain_and_address" -> get_request(answer)
      [] op = "search_pairs" -> get_request(answer)
      [] op = "get_pair_by_token_address" -> get_pair_by_token_address_answered(answer)
      [] op = "get_pairs_by_token_addresses" -> get_pairs_by_token_addresses_answered(answer)

(***************************************************************************)
(* Calls.  A call is [pc, op, chain, items, url, answer, outcome]: pc is   *)
(* "idle" before it is made, "awaiting" at send().await while its GET is   *)
(* out, "reading" at json().await once the status is there and the body    *)
(* is not, "done" when it has returned, "panicked" when it unwound in a    *)
(* panic and returns nothing; items are the addresses or the query it was  *)
(* given.                                                                  *)
(***************************************************************************)
Idle ==
    [pc |-> "idle", op |-> "none", chain |-> "", items |-> << >>, url |-> << >>,
     answer |-> NoAnswer, outcome |-> NoOutcome]

Chains == {"ethereum"}

Addresses == {"0xa"}

Queries == {"a b"}

\* n addresses, both addresses in turn
AddressList(n) == [i \in 1..n |-> IF i % 2 = 1 THEN "0xa" ELSE "0xb"]

AddressLists ==
    {AddressList(n) : n \in {1, 2, MaxTokenAddresses, MaxTokenAddresses + 1}}

BaseUrls == {API_BASE_URL, "http://localhost:8080"}

\* the call issues its GET and awaits the answer
Send(c, op, chain, items, url) ==
    /\ calls' = [calls EXCEPT ![c] = [Idle EXCEPT !.pc = "awaiting", !.op = op,
                                                  !.chain = chain, !.items = items,
                                                  !.url = url]]
    /\ sent' = [sent EXCEPT ![c] = Append(sent[c], url)]

\* the call returns its outcome after issuing a GET all the same
ReturnAfterGet(c, op, chain, items, outcome) ==
    /\ calls' = [calls EXCEPT ![c] = [Idle EXCEPT !.pc = "done", !.op = op,
                                                  !.chain = chain, !.items = items,
                                                  !.outcome = outcome]]
    /\ sent' = [sent EXCEPT ![c] = Append(sent[c], <<base_url>>)]

\* the call returns without a GET
Return(c, op, chain, items, outcome) ==
    /\ calls' = [calls EXCEPT ![c] = [Idle EXCEPT !.pc = "done", !.op = op,
                                                  !.chain = chain, !.items = items,
                                                  !.outcome = outcome]]
    /\ sent' = sent

(***************************************************************************)
(* The operations, each up to the await of its GET, and the two awaits     *)
(* of a call: that of send() and that of json().                           *)
(***************************************************************************)
\* client.rs 109-119, and get_request to the await of line 275
get_pairs_by_chain_and_address(c) ==
    /\ calls[c].pc = "idle"
    /\ \E chain \in Chains, pair \in Addresses :
           Send(c, "get_pairs_by_chain_and_address", chain, <<pair>>,
                <<base_url, "/latest/dex/pairs/", chain, "/", pair>>)
    /\ UNCHANGED <<base_url, pc, decoder, input, result, budget>>

\* client.rs 150-160
get_pair_by_token_address(c) ==
    /\ calls[c].pc = "idle"
    /\ \E chain \in Chains, token \in Addresses :
           Send(c, "get_pair_by_token_address", chain, <<token>>,
                <<base_url, "/token-pairs/v1/", chain, "/", token>>)
    /\ UNCHANGED <<base_url, pc, decoder, input, result, budget>>

\* client.rs 205-219
get_pairs_by_token_addresses(c) ==
    /\ calls[c].pc = "idle"
    /\ \E chain \in Chains, token_addresses \in AddressLists :
           IF Len(token_addresses) > MaxTokenAddresses
           THEN Return(c, "get_pairs_by_token_addresses", chain, token_addresses,
                       Other("Too many token addresses. Maximum allowed is 30."))
           ELSE Send(c, "get_pairs_by_token_addresses", chain, token_addresses,
                     <<base_url, "/tokens/v1/", chain, "/">> \o join(token_addresses, ","))
    /\ UNCHANGED <<base_url, pc, decoder, input, result, budget>>

\* client.rs 256-259, and get_request to the await of line 275
search_pairs(c) ==
    /\ calls[c].pc = "idle"
    /\ \E query \in Queries :
           Send(c, "search_pairs", "", <<query>>,
                <<base_url, "/latest/dex/search?q=", query>>)
    /\ UNCHANGED <<base_url, pc, decoder, input, result, budget>>

\* json().await returns what an earlier call of the same operation with the
\* same arguments returned, kept in a cache of the client
JsonReturnsFromCache(c) ==
    /\ calls[c].pc = "reading"
    /\ \E answer \in BodyAnswers(calls[c].answer.status) :
           calls' = [calls EXCEPT
                        ![c].pc = "done", ![c].answer = answer,
                        ![c].outcome =
                            IF \E d \in DOMAIN calls :
                                   /\ calls[d].pc = "done" /\ calls[d].url = calls[c].url
                                   /\ calls[d].outcome.st = "ok"
                            THEN calls[CHOOSE d \in DOMAIN calls :
                                           /\ calls[d].pc = "done"
                                           /\ calls[d].url = calls[c].url
                                           /\ calls[d].outcome.st = "ok"].outcome
                            ELSE Answered(calls[c].op, answer)]
    /\ UNCHANGED <<sent, base_url, pc, decoder, input, result, budget>>

\* the call sends its GET again when the transport failed it
SendReturnsWithRetry(c) ==
    /\ calls[c].pc = "awaiting"
    /\ \/ /\ Len(sent[c]) < 2
          /\ calls' = calls /\ sent' = [sent EXCEPT ![c] = Append(sent[c], calls[c].url)]
       \/ /\ calls' = [calls EXCEPT ![c].pc = "done", ![c].answer = Failure,
                                     ![c].outcome = ReqwestError("send")]
          /\ sent' = sent
       \/ /\ \E status \in Statuses :
                 calls' = [calls EXCEPT ![c].pc = "reading", ![c].answer = StatusOnly(status)]
          /\ sent' = sent
    /\ UNCHANGED <<base_url, pc, decoder, input, result, budget>>

\* send().await returns (client.rs 160, 219, 275): the transport failed the
\* GET and `?` returns the error, or the response is there with its status
\* and the call goes on to read the body
SendReturns(c) ==
    /\ calls[c].pc = "awaiting"
    /\ \/ calls' = [calls EXCEPT ![c].pc = "done", ![c].answer = Failure,
                                  ![c].outcome = ReqwestError("send")]
       \/ \E status \in Statuses :
              calls' = [calls EXCEPT ![c].pc = "reading", ![c].answer = StatusOnly(status)]
    /\ UNCHANGED <<sent, base_url, pc, decoder, input, result, budget>>

\* the call after its json().await: returned, or unwound by a panic
Returned(call, answer, outcome) ==
    [call EXCEPT !.pc = IF outcome.st = "panic" THEN "panicked" ELSE "done",
                 !.answer = answer, !.outcome = outcome]

\* json().await returns (client.rs 164, 167, 223, 226, 278, 281): the body
\* was read and decoded, or not, and the call returns; a panic of the decode
\* unwinds the call, which returns nothing
JsonReturns(c) ==
    /\ calls[c].pc = "reading"
    /\ \E answer \in BodyAnswers(calls[c].answer.status) :
           calls' = [calls EXCEPT
                        ![c] = Returned(calls[c], answer, Answered(calls[c].op, answer))]
    /\ UNCHANGED <<sent, base_url, pc, decoder, input, result, budget>>

\* the decoders are exercised on their own: no client, no call
NoClient == base_url = API_BASE_URL /\ calls = << >> /\ sent = << >>

\* DexScreenerClient::new() or with_base_url(..) (client.rs 52-79), no call made yet
InitClient ==
    /\ pc = "done" /\ decoder = "none" /\ input = JNull /\ result = Ok(None) /\ budget = 0
    /\ base_url \in BaseUrls
    /\ calls = [c \in 1..MaxCalls |-> Idle]
    /\ sent = [c \in 1..MaxCalls |-> << >>]

\* DexScreenerClient::new() (client.rs 52-57), no call made yet
InitDefaultClient ==
    /\ pc = "done" /\ decoder = "none" /\ input = JNull /\ result = Ok(None) /\ budget = 0
    /\ base_url = API_BASE_URL
    /\ calls = [c \in 1..MaxCalls |-> Idle]
    /\ sent = [c \in 1..MaxCalls |-> << >>]

NextClient ==
    \/ \E c \in DOMAIN calls : get_pairs_by_chain_and_address(c)
    \/ \E c \in DOMAIN calls : get_pair_by_token_address(c)
    \/ \E c \in DOMAIN calls : get_pairs_by_token_addresses(c)
    \/ \E c \in DOMAIN calls : search_pairs(c)
    \/ \E c \in DOMAIN calls : SendReturns(c)
    \/ \E c \in DOMAIN calls : JsonReturns(c)

(***************************************************************************)
(* The state machine: an input is chosen, possibly edited, and decoded.    *)
(***************************************************************************)
TypeOK ==
    /\ pc \in {"input", "done"}
    /\ decoder \in NumberDecoders \cup {"timestamp", "TokenPair", "none"}
    /\ budget \in 0..MaxEdits

InitNumber ==
    /\ NoClient
    /\ pc = "input"
    /\ decoder \in NumberDecoders
    /\ input \in NumberInputs
    /\ result = Ok(None)
    /\ budget = 0

InitTimestamp ==
    /\ NoClient
    /\ pc = "input"
    /\ decoder = "timestamp"
    /\ input \in TimestampInputs
    /\ result = Ok(None)
    /\ budget = 0

InitPair ==
    /\ NoClient
    /\ pc = "input"
    /\ decoder = "TokenPair"
    /\ input \in {FullPair, MinimalPair}
    /\ result = Ok(None)
    /\ budget = MaxEdits

Init == InitNumber \/ InitTimestamp \/ InitPair \/ InitClient

\* a field of the document is replaced before it is sent
ReplaceField ==
    /\ pc = "input" /\ decoder = "TokenPair" /\ budget > 0
    /\ \E path \in Paths : \E j \in Replacements(path) :
           /\ input[path] # j
           /\ input' = [input EXCEPT ![path] = j]
    /\ budget' = budget - 1
    /\ UNCHANGED <<pc, decoder, result, base_url, calls, sent>>

\* a numeric field of the document is sent in its other encoding
ReencodeField ==
    /\ pc = "input" /\ decoder = "TokenPair" /\ budget > 0
    /\ \E path \in FloatFields :
           /\ Reencoded(input[path]) # input[path]
           /\ input' = [input EXCEPT ![path] = Reencoded(input[path])]
    /\ budget' = budget - 1
    /\ UNCHANGED <<pc, decoder, result, base_url, calls, sent>>

DecodeNumber ==
    /\ pc = "input" /\ decoder \in NumberDecoders
    /\ result' = DecodeField(decoder, input)
    /\ pc' = "done"
    /\ UNCHANGED <<decoder, input, budget, base_url, calls, sent>>

DecodeTimestamp ==
    /\ pc = "input" /\ decoder = "timestamp"
    /\ result' = DecodeField(decoder, input)
    /\ pc' = "done"
    /\ UNCHANGED <<decoder, input, budget, base_url, calls, sent>>

DecodeTokenPair ==
    /\ pc = "input" /\ decoder = "TokenPair"
    /\ result' = TokenPair(input)
    /\ pc' = "done"
    /\ UNCHANGED <<decoder, input, budget, base_url, calls, sent>>

NextNumber == DecodeNumber

NextTimestamp == DecodeTimestamp

NextPair == ReplaceField \/ ReencodeField \/ DecodeTokenPair

Next == NextNumber \/ NextTimestamp \/ NextPair \/ NextClient

SpecNumber == InitNumber /\ [][NextNumber]_vars

SpecTimestamp == InitTimestamp /\ [][NextTimestamp]_vars

SpecPair == InitPair /\ [][NextPair]_vars

Spec == Init /\ [][Next]_vars

SpecClient == InitClient /\ [][NextClient]_vars

\* the decoders on their own, fields and pair objects
SpecDecode ==
    (InitNumber \/ InitTimestamp \/ InitPair) /\ [][NextNumber \/ NextTimestamp \/ NextPair]_vars

\* the client with a transport that answers or fails every GET in the end,
\* and delivers or fails every body (the client of DexScreenerClient::new())
SpecClientLive ==
    /\ InitDefaultClient /\ [][NextClient]_vars
    /\ \A c \in 1..MaxCalls : WF_vars(SendReturns(c)) /\ WF_vars(JsonReturns(c))

\* the two field decoders' inputs together
SpecField == (InitNumber \/ InitTimestamp) /\ [][NextNumber \/ NextTimestamp]_vars

(***************************************************************************)
(* Properties.  A decode is observed in the states with pc = "done", where *)
(* result is the decode of input; a property that relates two documents is *)
(* stated over the step that turns one into the other.                     *)
(***************************************************************************)
\* the field of a decoded TokenPair that the document's path is decoded into
FieldValue(val, path) ==
    CASE path = <<"priceNative">> -> val.price_native
      [] path = <<"priceUsd">> -> val.price_usd
      [] path = <<"fdv">> -> val.fdv
      [] path = <<"marketCap">> -> val.market_cap
      [] path[1] = "liquidity" -> val.liquidity[path[2]]
      [] path[1] = "volume" -> val.volume[path[2]]
      [] path[1] = "priceChange" -> val.price_change[path[2]]

\* the step replaces exactly the field at path, by j
Replaces(path, j) == input' = [input EXCEPT ![path] = j] /\ input' # input /\ ReplaceField

\* C1: for every valid JSON number N and the JSON string S of N's text, the
\* mandatory numeric decoder succeeds on both and gives the same f64.
C1_RepresentationIndependent ==
    (pc = "done" /\ decoder = "mandatory" /\ input.t = "num")
        => /\ result.st = "ok"
           /\ deserialize_string_or_number(JStr(input.s)).st = "ok"
           /\ F64Eq(result.val.f, deserialize_string_or_number(JStr(input.s)).val.f)

\* the number 1e999 is refused where the string "1e999" decodes to infinity
C1_OutOfRangeNumber ==
    /\ pc = "done" /\ decoder = "mandatory"
    /\ input = JNum(<<"1","e","9","9","9">>)
    /\ result = OutOfRange
    /\ deserialize_string_or_number(JStr(input.s)) = Ok(Some(F64Inf(FALSE)))

\* C2: for every floating-point field of a pair, the pair decodes to the same
\* value whether the field is sent as a JSON number or as the string of that
\* number, whatever the encodings of the other fields.
C2_SameValueInEitherEncoding ==
    [][ReencodeField => (TokenPair(input).st = "ok" => TokenPair(input') = TokenPair(input))]_vars

\* fdv sent as the string of a number fails the decode of the pair
C2_FdvStringRefused ==
    /\ pc = "done" /\ decoder = "TokenPair"
    /\ input[<<"fdv">>].t = "str" /\ IsJsonNumber(input[<<"fdv">>].s)
    /\ result = InvalidType(input[<<"fdv">>], "f64")
    /\ TokenPair([input EXCEPT ![<<"fdv">>] = JNum(input[<<"fdv">>].s)]).st = "ok"

\* the three ways an optional numeric field carries no value
Blank == {JAbsent, JNull, JStr(<< >>)}

\* C3: each optional numeric field (priceUsd, liquidity.usd, fdv, marketCap),
\* when absent, null or the empty string, decodes to "no value" and the decode
\* of the pair succeeds.
C3_BlankOptionalIsNoValue ==
    [][\A path \in OptionalFields : \A j \in Blank :
          (Replaces(path, j) /\ TokenPair(input).st = "ok")
              => /\ TokenPair(input').st = "ok"
                 /\ FieldValue(TokenPair(input').val, path) = None]_vars

\* fdv sent as the empty string fails the decode of the pair
C3_FdvEmptyRefused ==
    /\ pc = "done" /\ decoder = "TokenPair"
    /\ input[<<"fdv">>] = JStr(<< >>)
    /\ result = InvalidType(JStr(<< >>), "f64")
    /\ TokenPair([input EXCEPT ![<<"fdv">>] = JAbsent]).st = "ok"

\* a non-empty string that f64::from_str refuses
MalformedNumber(j) == j.t = "str" /\ Len(j.s) > 0 /\ ~f64_from_str(j.s).ok

\* the field at path is read when the pair is decoded: its object is there
Read(doc, path) == Len(path) = 1 \/ doc[<<path[1]>>].t = "obj"

\* C4: a non-empty string that is no float literal, in a mandatory or an
\* optional numeric field, makes the decode fail with the float parser's
\* error, and the decode of the enclosing pair fail; no default takes its place.
C4_MalformedNumberIsError ==
    /\ (pc = "done" /\ decoder \in NumberDecoders /\ MalformedNumber(input))
           => result = Custom(<<Lit(f64_from_str(input.s).e)>>)
    /\ (/\ pc = "done" /\ decoder = "TokenPair"
        /\ \E path \in FloatFields : Read(input, path) /\ MalformedNumber(input[path]))
           => result.st = "err"

\* a pair whose marketCap is the string "x" and whose decode fails on it
C4_MalformedMarketCap ==
    /\ pc = "done" /\ decoder = "TokenPair"
    /\ input[<<"marketCap">>] = JStr(<<"x">>)
    /\ result = Custom(<<Lit("invalid float literal")>>)

\* C5: a pair without priceNative, or with a liquidity object without base
\* or without quote, fails to decode.
C5_MandatoryAbsentIsError ==
    (/\ pc = "done" /\ decoder = "TokenPair"
     /\ \/ input[<<"priceNative">>].t = "absent"
        \/ /\ input[<<"liquidity">>].t = "obj"
           /\ \/ input[<<"liquidity", "base">>].t = "absent"
              \/ input[<<"liquidity", "quote">>].t = "absent")
        => result.st = "err"

\* a pair whose liquidity object has no base, refused for the missing field
C5_MissingBase ==
    /\ pc = "done" /\ decoder = "TokenPair"
    /\ input[<<"liquidity">>].t = "obj"
    /\ input[<<"liquidity", "base">>].t = "absent"
    /\ result = MissingField("base")

\* the decoded pair val with the window at path set to v
WithWindow(val, path, v) ==
    IF path[1] = "volume" THEN [val EXCEPT !.volume[path[2]] = v]
    ELSE [val EXCEPT !.price_change[path[2]] = v]

\* C6: in volume and priceChange, a window absent from the input decodes to
\* 0.0 and the decode succeeds, the other windows keeping their values:
\* taking a window out of a pair that decodes changes that window to 0.0
\* and nothing else.
C6_AbsentWindowIsZero ==
    [][\A path \in WindowFields :
          (Replaces(path, JAbsent) /\ Read(input, path) /\ TokenPair(input).st = "ok")
              => TokenPair(input')
                     = Ok(WithWindow(TokenPair(input).val, path, Some(F64Zero(FALSE))))]_vars

\* a decoded pair whose volume has no h1 and a nonzero h24
C6_AbsentH1 ==
    /\ pc = "done" /\ decoder = "TokenPair" /\ result.st = "ok"
    /\ input[<<"volume", "h1">>].t = "absent"
    /\ result.val.volume.h1 = Some(F64Zero(FALSE))
    /\ input[<<"volume", "h24">>].t # "absent"
    /\ ~F64Eq(result.val.volume.h24.f, F64Zero(FALSE))

\* a JSON number token that is an integer
IsJsonInteger(s) == IsJsonNumber(s) /\ \A i \in 1..Len(s) : s[i] \in Digits \cup {"-"}

\* the instant n milliseconds after the epoch (before it, for a negative n):
\* whole seconds rounded down and the milliseconds past them
MillisInstant(n) ==
    IF ~n.neg THEN Instant(n.q, n.r * 1000000)
    ELSE IF n.r = 0 THEN Instant(0 - n.q, 0)
    ELSE Instant((0 - n.q) - 1, (1000 - n.r) * 1000000)

\* C7: for every JSON integer m the timestamp decoder gives "has value" with
\* the instant exactly m milliseconds after the Unix epoch, the remainder
\* kept as the sub-second part; 1620250931000 gives epoch second 1620250931.
C7_IntegerIsExactInstant ==
    (pc = "done" /\ decoder = "timestamp" /\ input.t = "num" /\ IsJsonInteger(input.s))
        => result = Ok(SomeInstant(MillisInstant(
               IntFromDigits(input.s, IF input.s[1] = "-" THEN 2 ELSE 1,
                             Len(input.s) + 1, input.s[1] = "-"))))

\* the integer -1, one millisecond before the epoch, ends the decode in a panic
C7_NegativeMillisPanics ==
    /\ pc = "done" /\ decoder = "timestamp"
    /\ input = JNum(<<"-","1">>)
    /\ result = Panic

\* C8: for every moment, its RFC 3339 string, the string of its millisecond
\* integer and that integer as a JSON number decode to the same instant, the
\* instant of the moment.
C8_SameInstantInEveryEncoding ==
    (pc = "done" /\ decoder = "timestamp")
        => \A e \in Encodings :
               input = JStr(e.rfc)
                   => /\ result = Ok(SomeInstant(InstantOf(e.m)))
                      /\ deserialize_timestamp_to_datetime(JStr(e.millis)) = result
                      /\ deserialize_timestamp_to_datetime(JNum(e.millis)) = result

\* 1969-12-31T23:59:59.999Z decodes, and its milliseconds -1 do not
C8_BeforeEpochDiffers ==
    /\ pc = "done" /\ decoder = "timestamp"
    /\ input = JStr(Rfc3339Of([secs |-> -1, ms |-> 999]))
    /\ result = Ok(SomeInstant(Instant(-1, 999000000)))
    /\ MillisOf([secs |-> -1, ms |-> 999]) = <<"-","1">>
    /\ deserialize_timestamp_to_datetime(JStr(<<"-","1">>)) = Panic
    /\ deserialize_timestamp_to_datetime(JNum(<<"-","1">>)) = Panic

\* a non-empty string that is neither an RFC 3339 timestamp nor an integer
MalformedTimestamp(j) ==
    j.t = "str" /\ Len(j.s) > 0 /\ ~parse_from_rfc3339(j.s).ok /\ ~i64_from_str(j.s).ok

\* C9: an absent field, null and the empty string decode to "no value"
\* without error; a non-empty string that is neither an RFC 3339 timestamp
\* nor an integer fails the decode with the "Failed to parse datetime" error.
C9_BlankOrMalformedTimestamp ==
    (pc = "done" /\ decoder = "timestamp")
        => /\ input \in Blank => result = Ok(None)
           /\ MalformedTimestamp(input)
                  => /\ result.st = "err" /\ result.err.kind = "custom"
                     /\ result.err.msg[1] = Lit("Failed to parse datetime: ")

\* the string "x" refused as a timestamp
C9_MalformedRefused ==
    /\ pc = "done" /\ decoder = "timestamp"
    /\ input = JStr(<<"x">>)
    /\ result = Custom(<<Lit("Failed to parse datetime: "),
                         Lit("invalid digit found in string")>>)

\* C10: the error of a numeric or timestamp decode that fails on a malformed
\* string carries that string.
C10_ErrorCarriesInput ==
    (/\ pc = "done"
     /\ \/ decoder \in NumberDecoders /\ MalformedNumber(input)
        \/ decoder = "timestamp" /\ MalformedTimestamp(input))
        => \E i \in DOMAIN result.err.msg : result.err.msg[i] = Quoted(input.s)

\* a malformed RFC 3339 date refused with the integer parser's message and
\* nothing of the date
C10_MalformedDateMessage ==
    /\ pc = "done" /\ decoder = "timestamp"
    /\ input = JStr(<<"2","0","2","1","-","0","5","-","0","5">>)
    /\ MalformedTimestamp(input)
    /\ result = Custom(<<Lit("Failed to parse datetime: "),
                         Lit("invalid digit found in string")>>)

\* C11: for every JSON input given to a numeric or timestamp decoder the
\* decode ends with a value or a returned error, never with a panic.
C11_DecodeNeverPanics ==
    (pc = "done" /\ decoder \in NumberDecoders \cup {"timestamp"})
        => result.st \in {"ok", "err"}

\* the string "-1", an integer one millisecond before the epoch, ends the
\* timestamp decode in a panic
C11_IntegerStringPanics ==
    /\ pc = "done" /\ decoder = "timestamp"
    /\ input = JStr(<<"-","1">>)
    /\ i64_from_str(input.s).ok
    /\ result = Panic

\* the calls of an operation that have been made
Made(op) == {c \in DOMAIN calls : calls[c].pc # "idle" /\ calls[c].op = op}

\* the message of client.rs 212
TooManyMessage == "Too many token addresses. Maximum allowed is 30."

\* C12: get_pairs_by_token_addresses with more than 30 addresses returns an
\* error and issues no GET, in every state; with exactly 30 addresses it is
\* not rejected locally and issues its GET.
C12_OverLimitSendsNothing ==
    \A c \in Made("get_pairs_by_token_addresses") :
        /\ Len(calls[c].items) > 30
               => /\ calls[c].pc = "done" /\ calls[c].outcome.st = "err"
                  /\ sent[c] = << >>
        /\ Len(calls[c].items) = 30
               => /\ Len(sent[c]) = 1
                  /\ calls[c].outcome.kind # "Other"

\* one call with 31 addresses has returned its error without a GET while
\* another with 30 addresses has its GET out
C12_ThirtyOneAndThirty ==
    \E c, d \in Made("get_pairs_by_token_addresses") :
        /\ Len(calls[c].items) = 31 /\ calls[c].pc = "done" /\ sent[c] = << >>
        /\ calls[c].outcome.st = "err"
        /\ Len(calls[d].items) = 30 /\ calls[d].pc = "awaiting" /\ Len(sent[d]) = 1

\* C13: the error of a batch request with more than 30 addresses
\* has a kind of its own, which is not the kind of the generic
\* custom-message error nor that of a transport, API or decode error.
C13_DedicatedKind ==
    \A c \in Made("get_pairs_by_token_addresses") :
        Len(calls[c].items) > 30
            => calls[c].outcome.kind
                   \notin {Other("Invalid input parameter").kind, "ReqwestError",
                           "ApiError", "SerdeError"}

\* a call with 31 addresses has returned the custom error, of the kind of
\* any other custom message
C13_TooManyReturned ==
    \E c \in Made("get_pairs_by_token_addresses") :
        /\ Len(calls[c].items) = 31 /\ calls[c].pc = "done"
        /\ calls[c].outcome = Other(TooManyMessage)
        /\ calls[c].outcome.kind = Other("Invalid input parameter").kind

\* the optional fields of a pair, labels included
OmittedFields ==
    {<<"priceUsd">>, <<"liquidity">>, <<"fdv">>, <<"marketCap">>, <<"pairCreatedAt">>,
     <<"labels">>}

\* every mandatory field of doc is that of MinimalPair, the numbers in
\* either encoding
HasMandatoryOfMinimal(doc) ==
    /\ \A path \in Strings \cup Counts \cup (Objects \ {<<"liquidity">>}) :
           doc[path] = MinimalPair[path]
    /\ \A path \in WindowFields \cup {<<"priceNative">>} :
           doc[path] \in {MinimalPair[path], JStr(MinimalPair[path].s)}

\* C14: a pair object with every mandatory field and none of priceUsd,
\* liquidity, fdv, marketCap, pairCreatedAt and labels decodes, each omitted
\* field to "no value" and every mandatory field to the value of the input.
C14_OptionalsOmitted ==
    (/\ pc = "done" /\ decoder = "TokenPair"
     /\ \A path \in OmittedFields : input[path].t = "absent"
     /\ HasMandatoryOfMinimal(input))
        => /\ result.st = "ok"
           /\ result.val.price_usd = None /\ result.val.liquidity = NoLiquidity
           /\ result.val.fdv = None /\ result.val.market_cap = None
           /\ result.val.pair_created_at = None /\ result.val.labels = "none"
           /\ result.val.chain_id = <<"e","t","h">>
           /\ result.val.dex_id = <<"u","n","i">>
           /\ result.val.url = <<"u">>
           /\ result.val.pair_address = <<"0","x","1","2","3","4">>
           /\ result.val.base_token
                  = [address |-> <<"0","x","a","b","c">>, name |-> <<"E","t","h">>,
                     symbol |-> <<"E","T","H">>]
           /\ result.val.quote_token
                  = [address |-> <<"0","x","d","e","f">>, name |-> <<"U","S","D">>,
                     symbol |-> <<"U","S","D","C">>]
           /\ result.val.price_native = Some(F64Nearest(FALSE, 30005, -1))
           /\ result.val.transactions
                  = [m5  |-> [buys |-> IntOf(FALSE, 0, 10), sells |-> IntOf(FALSE, 0, 5)],
                     h1  |-> [buys |-> IntOf(FALSE, 0, 60), sells |-> IntOf(FALSE, 0, 30)],
                     h6  |-> [buys |-> IntOf(FALSE, 0, 360), sells |-> IntOf(FALSE, 0, 180)],
                     h24 |-> [buys |-> IntOf(FALSE, 1, 440), sells |-> IntOf(FALSE, 0, 720)]]
           /\ \A path \in WindowFields :
                  FieldValue(result.val, path)
                      = deserialize_string_or_number(MinimalPair[path]).val

\* the object of test_token_pair_with_missing_optional_fields, decoded
C14_MinimalPairDecoded ==
    /\ pc = "done" /\ decoder = "TokenPair"
    /\ input = MinimalPair
    /\ result.st = "ok"
    /\ result.val.price_usd = None /\ result.val.pair_created_at = None
    /\ result.val.volume.h24 = Some(F64Nearest(FALSE, 1440005, -1))

\* the four operations of the client
Operations ==
    {"get_pairs_by_chain_and_address", "get_pair_by_token_address",
     "get_pairs_by_token_addresses", "search_pairs"}

\* the call has returned after the transport answered its GET with a response
GotResponse(c) == calls[c].pc = "done" /\ calls[c].answer.t = "response"

\* a failure payload: an object with a string message and a code that is a
\* string, null or absent
FailurePayload(body) ==
    /\ body.t = "obj" /\ body.message.t = "str"
    /\ body.code.t \in {"str", "null", "absent"}

\* C15: for each of the four operations, a non-success status with a failure
\* payload gives the error ApiError with exactly the message and the code of
\* the body, no code when the body's code is null or absent.
C15_FailurePayloadIsApiError ==
    \A c \in DOMAIN calls :
        (/\ GotResponse(c)
         /\ ~is_success(calls[c].answer.status)
         /\ FailurePayload(calls[c].answer.body))
            => /\ calls[c].op \in Operations
               /\ calls[c].outcome.st = "err"
               /\ calls[c].outcome.kind = "ApiError"
               /\ calls[c].outcome.message = calls[c].answer.body.message.s
               /\ calls[c].outcome.code
                      = IF calls[c].answer.body.code.t = "str"
                        THEN [some |-> TRUE, s |-> calls[c].answer.body.code.s]
                        ELSE [some |-> FALSE, s |-> << >>]
               /\ calls[c].outcome.pairs = << >>

\* a search answered 404 with a message and a null code, a batch request
\* answered 404 with a message and the code "E1"
C15_ApiErrorsReturned ==
    /\ GotResponse(1) /\ calls[1].op = "search_pairs"
    /\ calls[1].answer = Response(404, ObjectBody(NoMember, JNull, JStr(<<"n","o">>)))
    /\ calls[1].outcome.kind = "ApiError" /\ ~calls[1].outcome.code.some
    /\ GotResponse(2) /\ calls[2].op = "get_pairs_by_token_addresses"
    /\ calls[2].answer
           = Response(404, ObjectBody(NoMember, JStr(<<"E","1">>), JStr(<<"n","o">>)))
    /\ calls[2].outcome.kind = "ApiError" /\ calls[2].outcome.code.s = <<"E","1">>

\* the operations whose success body is a bare array of pairs
TokenOperations == {"get_pair_by_token_address", "get_pairs_by_token_addresses"}

\* the success body the operation expects does not decode
SuccessBodyRefused(op, body) ==
    IF op \in TokenOperations THEN response_json_vec(body).st = "err"
    ELSE response_json_pairs(body).st = "err"

\* the call got a body that does not match the schema expected for its status
DecodeFailed(c) ==
    /\ GotResponse(c)
    /\ IF is_success(calls[c].answer.status)
       THEN SuccessBodyRefused(calls[c].op, calls[c].answer.body)
       ELSE ~FailurePayload(calls[c].answer.body)

\* the transport failed the call's GET, or the read of its body
TransportFailed(c) == calls[c].pc = "done" /\ calls[c].answer.t \in {"failure", "lost"}

\* C16: a body that does not match the expected schema is returned as the
\* parsing error kind (DexScreenerError::SerdeError), a transport failure as
\* another kind, so that the kind tells a decode failure from a transport one.
C16_KindTellsDecodeFromTransport ==
    /\ \A c \in DOMAIN calls :
           DecodeFailed(c) => /\ calls[c].outcome.st = "err"
                              /\ calls[c].outcome.kind = "SerdeError"
    /\ \A c, d \in DOMAIN calls :
           (DecodeFailed(c) /\ TransportFailed(d))
               => calls[c].outcome.kind # calls[d].outcome.kind

\* a transport failure and a body that is not JSON, both returned as
\* DexScreenerError::ReqwestError
C16_SameKindForBoth ==
    /\ TransportFailed(1) /\ calls[1].outcome = ReqwestError("send")
    /\ DecodeFailed(2) /\ calls[2].answer = Response(200, TextBody)
    /\ calls[2].outcome = ReqwestError("decode")
    /\ calls[1].outcome.kind = calls[2].outcome.kind

\* C17: an operation returns ApiError only when the transport reported a
\* non-success status; on a success status the outcome is the decoded pairs
\* or a decode error, whatever the body holds, a failure payload included.
C17_ApiErrorOnlyOnFailureStatus ==
    \A c \in DOMAIN calls :
        /\ (calls[c].pc = "done" /\ calls[c].outcome.kind = "ApiError")
               => GotResponse(c) /\ ~is_success(calls[c].answer.status)
        /\ (GotResponse(c) /\ is_success(calls[c].answer.status))
               => /\ calls[c].outcome.kind # "ApiError"
                  /\ \/ calls[c].outcome.st = "ok"
                     \/ calls[c].outcome = ReqwestError("decode")
                  /\ (calls[c].outcome.st = "ok"
                          <=> ~SuccessBodyRefused(calls[c].op, calls[c].answer.body))

\* a failure payload under status 200: a decode error for a search, and the
\* pairs of the body when the payload has them too
C17_FailurePayloadOnSuccess ==
    /\ GotResponse(1) /\ calls[1].op = "search_pairs"
    /\ calls[1].answer
           = Response(200, ObjectBody(NoMember, JStr(<<"E","1">>), JStr(<<"n","o">>)))
    /\ calls[1].outcome = ReqwestError("decode")
    /\ GotResponse(2) /\ calls[2].op = "get_pairs_by_chain_and_address"
    /\ calls[2].answer
           = Response(200, ObjectBody(ArrayMember(<<"minimal">>), JStr(<<"E","1">>),
                                      JStr(<<"n","o">>)))
    /\ calls[2].outcome.st = "ok" /\ Len(calls[2].outcome.pairs) = 1

\* C18: every invocation issues at most one GET.  A call past its GET never
\* sends again; a transport failure returns the error in the step it is
\* met; after a non-success status, and after a success status whose body
\* does not decode, the next step of the call returns the error; a call
\* that has returned never changes again.
C18_AtMostOneGet ==
    /\ [](\A c \in DOMAIN calls :
              /\ Len(sent[c]) <= 1
              /\ calls[c].pc = "idle" => sent[c] = << >>
              /\ calls[c].pc \in {"awaiting", "reading"} => sent[c] = <<calls[c].url>>
              /\ (calls[c].pc \in {"done", "panicked"} /\ calls[c].answer.t # "none")
                     => sent[c] = <<calls[c].url>>)
    /\ [][\A c \in DOMAIN calls :
              /\ calls[c].pc # "idle" => sent'[c] = sent[c]
              /\ (calls[c].pc = "awaiting" /\ calls'[c] # calls[c])
                     => \/ /\ calls'[c].pc = "done" /\ calls'[c].answer = Failure
                           /\ calls'[c].outcome.st = "err"
                        \/ /\ calls'[c].pc = "reading"
                           /\ calls'[c].answer.t = "status"
              /\ (calls[c].pc = "reading" /\ calls'[c] # calls[c])
                     => /\ calls'[c].pc \in {"done", "panicked"}
                        /\ calls'[c].answer.status = calls[c].answer.status
                        /\ ~is_success(calls[c].answer.status)
                               => calls'[c].pc = "done" /\ calls'[c].outcome.st = "err"
                        /\ calls'[c].answer.t = "lost"
                               => calls'[c].pc = "done" /\ calls'[c].outcome.st = "err"
                        /\ (/\ calls'[c].answer.t = "response"
                            /\ is_success(calls[c].answer.status)
                            /\ SuccessBodyRefused(calls[c].op, calls'[c].answer.body))
                               => calls'[c].pc = "done" /\ calls'[c].outcome.st = "err"
              /\ calls[c].pc \in {"done", "panicked"}
                     => calls'[c] = calls[c] /\ sent'[c] = sent[c]]_vars

\* two calls that returned an error, each after its one GET: a transport
\* failure, and a non-success status or a decode failure
C18_ErrorsAfterOneGet ==
    /\ calls[1].pc = "done" /\ calls[1].answer = Failure
    /\ Len(sent[1]) = 1 /\ calls[1].outcome.st = "err"
    /\ GotResponse(2) /\ Len(sent[2]) = 1
    /\ \/ calls[2].outcome.kind = "ApiError"
       \/ calls[2].outcome = ReqwestError("decode")

\* every pair object named in elems decodes
AllDecode(elems) == \A i \in DOMAIN elems : DecodedPair[elems[i]].st = "ok"

\* C19: on a success status the token operations decode the body as a bare
\* array of pairs and the pairs and search operations as an object, whose
\* pairs member they return; a body of the other shape is a decode error,
\* not a collection of pairs.
C19_ShapePerOperation ==
    \A c \in DOMAIN calls :
        (GotResponse(c) /\ is_success(calls[c].answer.status))
            => IF calls[c].op \in TokenOperations
               THEN /\ (calls[c].answer.body.t = "arr" /\ AllDecode(calls[c].answer.body.elems))
                           => /\ calls[c].outcome.st = "ok"
                              /\ Len(calls[c].outcome.pairs)
                                     = Len(calls[c].answer.body.elems)
                    /\ calls[c].answer.body.t # "arr"
                           => calls[c].outcome = ReqwestError("decode")
               ELSE /\ (/\ calls[c].answer.body.t = "obj"
                        /\ calls[c].answer.body.pairs.t = "arr"
                        /\ AllDecode(calls[c].answer.body.pairs.elems))
                           => /\ calls[c].outcome.st = "ok"
                              /\ Len(calls[c].outcome.pairs)
                                     = Len(calls[c].answer.body.pairs.elems)
                    /\ calls[c].answer.body.t # "obj"
                           => calls[c].outcome = ReqwestError("decode")

\* the same object with a pairs member, a decode error for a token
\* operation and a collection for a search; the same array the other way
C19_EachShapeBothWays ==
    \/ /\ GotResponse(1) /\ calls[1].op = "get_pair_by_token_address"
       /\ calls[1].answer
              = Response(200, ObjectBody(ArrayMember(<<"full">>), JAbsent, JAbsent))
       /\ calls[1].outcome = ReqwestError("decode")
       /\ GotResponse(2) /\ calls[2].op = "search_pairs"
       /\ calls[2].answer = calls[1].answer
       /\ calls[2].outcome.st = "ok" /\ Len(calls[2].outcome.pairs) = 1
    \/ /\ GotResponse(1) /\ calls[1].op = "get_pairs_by_token_addresses"
       /\ calls[1].answer = Response(200, ArrayBody(<<"full">>))
       /\ calls[1].outcome.st = "ok" /\ Len(calls[1].outcome.pairs) = 1
       /\ GotResponse(2) /\ calls[2].op = "get_pairs_by_chain_and_address"
       /\ calls[2].answer = calls[1].answer
       /\ calls[2].outcome = ReqwestError("decode")

\* the pairs named in elems, decoded, in the order of elems
PairsOf(elems) == [i \in 1..Len(elems) |-> DecodedPair[elems[i]].val]

\* the pair objects of a body, as the operation reads it
BodyPairs(op, body) == IF op \in TokenOperations THEN body.elems ELSE body.pairs.elems

\* C20: for each of the four operations, the returned collection holds
\* exactly the pairs of the response body in the order of the body, none
\* added, dropped, duplicated or re-sorted.
C20_PairsOfBodyInOrder ==
    \A c \in DOMAIN calls :
        (calls[c].pc = "done" /\ calls[c].outcome.st = "ok")
            => /\ GotResponse(c) /\ is_success(calls[c].answer.status)
               /\ calls[c].outcome.pairs
                      = PairsOf(BodyPairs(calls[c].op, calls[c].answer.body))

\* two different pairs returned in the order of the body, by a token
\* operation and by a search
C20_TwoPairsInOrder ==
    /\ GotResponse(1) /\ calls[1].op = "get_pairs_by_token_addresses"
    /\ calls[1].answer = Response(200, ArrayBody(<<"minimal", "full">>))
    /\ calls[1].outcome.st = "ok"
    /\ calls[1].outcome.pairs = <<TokenPair(MinimalPair).val, TokenPair(FullPair).val>>
    /\ GotResponse(2) /\ calls[2].op = "search_pairs"
    /\ calls[2].answer
           = Response(200, ObjectBody(ArrayMember(<<"full", "minimal">>), JAbsent, JAbsent))
    /\ calls[2].outcome.pairs = <<TokenPair(FullPair).val, TokenPair(MinimalPair).val>>
    /\ calls[1].outcome.pairs[1] # calls[1].outcome.pairs[2]

\* the body has the shape the operation reads on a success status
ShapeRead(op, body) ==
    IF op \in TokenOperations THEN body.t = "arr"
    ELSE body.t = "obj" /\ body.pairs.t = "arr"

\* the first pair of elems that does not decode panics
PanicsFirst(elems) ==
    \E i \in DOMAIN elems :
        /\ DecodedPair[elems[i]].st = "panic"
        /\ \A k \in 1..(i - 1) : DecodedPair[elems[k]].st = "ok"

\* what the API's contract makes of a call from nothing but its operation
\* and the transport's answer to its own GET: the pairs of the body, the
\* failure payload of the body, or the error of the send, of the read or of
\* the decode
OwnOutcome(op, answer) ==
    CASE answer.t = "none" -> Other(TooManyMessage)
      [] answer.t = "failure" -> ReqwestError("send")
      [] answer.t = "lost" -> ReqwestError("body")
      [] answer.t = "response" /\ ~is_success(answer.status) ->
             IF FailurePayload(answer.body)
             THEN ApiError(IF answer.body.code.t = "str"
                           THEN [some |-> TRUE, s |-> answer.body.code.s]
                           ELSE [some |-> FALSE, s |-> << >>],
                           answer.body.message.s)
             ELSE ReqwestError("decode")
      [] answer.t = "response" /\ is_success(answer.status) ->
             IF ~ShapeRead(op, answer.body) THEN ReqwestError("decode")
             ELSE IF AllDecode(BodyPairs(op, answer.body))
             THEN OkPairs(PairsOf(BodyPairs(op, answer.body)))
             ELSE IF PanicsFirst(BodyPairs(op, answer.body)) THEN Panicked
             ELSE ReqwestError("decode")

\* the call is over: it returned, or it unwound
Over(c) == calls[c].pc \in {"done", "panicked"}

\* C21: operations share no mutable state.  In every interleaving of the
\* calls' steps, a call that is over has the outcome that its own operation
\* and the transport's answer to its own GET call for, and two calls of one
\* operation with the same answer have the same outcome; the status a call
\* received is the one it decides on after the body; a step of one call
\* changes nothing of another; the client's base URL never changes.
C21_NoSharedState ==
    /\ [](\A c \in DOMAIN calls :
              Over(c) => calls[c].outcome = OwnOutcome(calls[c].op, calls[c].answer))
    /\ [](\A c, d \in DOMAIN calls :
              (/\ Over(c) /\ Over(d) /\ calls[c].op = calls[d].op
               /\ calls[c].answer = calls[d].answer)
                  => calls[c].outcome = calls[d].outcome)
    /\ [][/\ base_url' = base_url
          /\ \A c \in DOMAIN calls :
                 (calls[c].pc = "reading" /\ calls'[c] # calls[c])
                     => calls'[c].answer.status = calls[c].answer.status
          /\ \A c, d \in DOMAIN calls :
                 (c # d /\ calls'[c] # calls[c])
                     => calls'[d] = calls[d] /\ sent'[d] = sent[d]]_vars

\* two calls of the same operation with the same arguments on a client with a
\* custom base URL, the second answered 404 and returned between the two
\* awaits of the first, which was answered 200: each has the outcome of its
\* own answer
C21_InterleavedCalls ==
    /\ base_url = "http://localhost:8080"
    /\ calls[1].op = "search_pairs" /\ calls[2].op = "search_pairs"
    /\ calls[1].items = calls[2].items
    /\ calls[1].pc = "reading" /\ calls[1].answer = StatusOnly(200)
    /\ calls[2].pc = "done"
    /\ calls[2].answer = Response(404, ObjectBody(NoMember, JNull, JStr(<<"n","o">>)))
    /\ calls[2].outcome = ApiError(NoCode, <<"n","o">>)

\* C22: in every decoded pair the buys and the sells of each activity window
\* are non-negative; an input with a negative buys or sells never decodes.
C22_CountsNonNegative ==
    (pc = "done" /\ decoder = "TokenPair")
        => /\ result.st = "ok"
               => \A w \in Windows :
                      /\ ~result.val.transactions[w].buys.neg
                      /\ ~result.val.transactions[w].sells.neg
           /\ (\E path \in Counts :
                   /\ input[path].t = "num" /\ Len(input[path].s) > 0
                   /\ input[path].s[1] = "-")
                  => result.st # "ok"

\* a pair whose buys of the last five minutes is -1, decoded with that count
C22_NegativeCountDecoded ==
    /\ pc = "done" /\ decoder = "TokenPair"
    /\ input[<<"txns", "m5", "buys">>] = JNum(<<"-","1">>)
    /\ result.st = "ok"
    /\ result.val.transactions.m5.buys = IntOf(TRUE, 0, 1)

PathOf(op, chain, items) ==
    CASE op = "get_pairs_by_chain_and_address" -> <<"/latest/dex/pairs/", chain, "/", items[1]>>
      [] op = "get_pair_by_token_address" -> <<"/token-pairs/v1/", chain, "/", items[1]>>
      [] op = "get_pairs_by_token_addresses"
             -> <<"/tokens/v1/", chain, "/">>
                    \o [i \in 1..(2 * Len(items) - 1) |->
                            IF i % 2 = 1 THEN items[(i + 1) \div 2] ELSE ","]
      [] op = "search_pairs" -> <<"/latest/dex/search?q=", items[1]>>

\* C24: each operation requests exactly the base URL followed by its path
\* template with the arguments put in verbatim; nothing is escaped,
\* reordered, deduplicated or trimmed.
C24_UrlIsTemplate ==
    \A c \in DOMAIN calls :
        (calls[c].pc # "idle" /\ sent[c] # << >>)
            => /\ sent[c] = <<calls[c].url>>
               /\ calls[c].url
                      = <<base_url>> \o PathOf(calls[c].op, calls[c].chain, calls[c].items)

\* a batch request of 30 addresses with repeated ones, a search whose query
\* has a space, on the custom base URL
C24_RepeatedAddressesAndSpace ==
    /\ base_url = "http://localhost:8080"
    /\ calls[1].op = "get_pairs_by_token_addresses" /\ Len(calls[1].items) = 30
    /\ calls[1].items[1] = calls[1].items[3]
    /\ Len(sent[1]) = 1 /\ Len(sent[1][1]) = 4 + 59
    /\ sent[1][1][5] = "0xa" /\ sent[1][1][6] = "," /\ sent[1][1][7] = "0xb"
    /\ calls[2].op = "search_pairs"
    /\ sent[2] = << <<"http://localhost:8080", "/latest/dex/search?q=", "a b">> >>

\* C25: every call whose GET the transport eventually answers or fails, and
\* whose body it then delivers or fails, returns a result or an error; a
\* call waits for nothing but its one GET and the body of the response, and
\* the batch request over the limit returns in the step it is made, with no
\* GET to wait for.
C25_EveryCallReturns ==
    /\ \A c \in 1..MaxCalls :
           (calls[c].pc \in {"awaiting", "reading"}) ~> (calls[c].pc = "done")
    /\ [][\A c \in 1..MaxCalls :
              /\ (calls[c].pc = "idle" /\ calls'[c].pc = "done")
                     => /\ calls'[c].op = "get_pairs_by_token_addresses"
                        /\ Len(calls'[c].items) > MaxTokenAddresses
                        /\ calls'[c].outcome.st = "err" /\ sent'[c] = << >>
              /\ (calls[c].pc = "idle" /\ calls'[c].op = "get_pairs_by_token_addresses"
                      /\ Len(calls'[c].items) > MaxTokenAddresses)
                     => calls'[c].pc = "done"
              /\ (calls[c].pc = "awaiting" /\ calls'[c] # calls[c])
                     => \/ calls'[c].pc = "reading"
                        \/ calls'[c].pc = "done" /\ calls'[c].outcome.st = "err"
              /\ (calls[c].pc = "reading" /\ calls'[c] # calls[c])
                     => calls'[c].pc = "done" /\ calls'[c].outcome.st \in {"ok", "err"}]_vars

\* a call answered 200 with the array of one pair created one millisecond
\* before the epoch: it unwound in the panic of the pair's decode and has
\* returned neither pairs nor an error
C25_PanickedCall ==
    /\ calls[1].pc = "panicked" /\ Len(sent[1]) = 1
    /\ calls[1].op = "get_pair_by_token_address"
    /\ calls[1].answer = Response(200, ArrayBody(<<"panicking">>))
    /\ DecodedPair["panicking"] = Panic
    /\ calls[1].outcome.st \notin {"ok", "err"}

\* C26: the 0.0 of a window of volume or priceChange is for an absent key
\* only.  A window that is null or the empty string is an error of the
\* window's decode, of its object's and of the pair's; absent, it is 0.0.
C26_NullOrEmptyWindowFails ==
    /\ (pc = "done" /\ decoder = "window")
           => /\ input \in {JNull, JStr(<< >>)} => result.st = "err"
              /\ input = JAbsent => result = Ok(Some(F64Zero(FALSE)))
    /\ (pc = "done" /\ decoder = "TokenPair")
           => \A path \in WindowFields :
                  (input[<<path[1]>>].t = "obj" /\ input[path] \in {JNull, JStr(<< >>)})
                      => /\ result.st = "err"
                         /\ TimePeriodsFloat(ReadDocument(input), <<path[1]>>).st = "err"

\* a pair whose volume.h1 is null and one whose priceChange.m5 is "", refused
\* with the errors of the window's decoder
C26_WindowRefused ==
    /\ pc = "done" /\ decoder = "TokenPair" /\ result.st = "err"
    /\ \/ /\ input[<<"volume", "h1">>] = JNull
          /\ result = NoVariant("StringOrNumber")
       \/ /\ input[<<"priceChange", "m5">>] = JStr(<< >>)
          /\ result = Custom(<<Lit(f64_from_str(<< >>).e)>>)

\* C27: a present zero is not absence.  The optional numeric decoder gives
\* the value 0.0 for the number 0 and the string "0", the timestamp decoder
\* the Unix epoch for the integer 0 and the string "0"; with either decoder,
\* "no value" is the result of absent, null and the empty string only.
C27_ZeroIsAValue ==
    (pc = "done" /\ decoder \in {"optional", "timestamp"})
        => /\ (result.st = "ok" /\ ~result.val.some) <=> input \in Blank
           /\ input \in {JNum(<<"0">>), JStr(<<"0">>)}
                  => IF decoder = "optional"
                     THEN result = Ok(Some(F64Zero(FALSE)))
                     ELSE result = Ok(SomeInstant(Instant(0, 0)))

\* the string "0" decoded as a timestamp: the epoch, a value
C27_ZeroStringIsEpoch ==
    /\ pc = "done" /\ decoder = "timestamp" /\ input = JStr(<<"0">>)
    /\ result.st = "ok" /\ result.val.some /\ result.val.at = Instant(0, 0)

\* an activity window, or the buys or sells of one, is missing from doc
LacksActivity(doc) ==
    \/ doc[<<"txns">>].t = "absent"
    \/ /\ doc[<<"txns">>].t = "obj"
       /\ \E w \in Windows :
              \/ doc[<<"txns", w>>].t = "absent"
              \/ /\ doc[<<"txns", w>>].t = "obj"
                 /\ \E f \in {"buys", "sells"} : doc[<<"txns", w, f>>].t = "absent"

\* C28: the activity windows are all mandatory.  A pair without txns, or
\* whose txns lacks one of m5, h1, h6, h24, or with a window lacking buys or
\* sells, does not decode; no count of a decoded pair is a default.
C28_ActivityMandatory ==
    (pc = "done" /\ decoder = "TokenPair")
        => /\ LacksActivity(input) => result.st = "err"
           /\ result.st = "ok"
                  => \A path \in Counts :
                         /\ input[path].t = "num"
                         /\ result.val.transactions[path[2]][path[3]]
                                = I64(ReadDocument(input), path).val

\* pairs refused with the missing field named: txns, the window h6, the
\* sells of m5
C28_MissingActivityRefused ==
    /\ pc = "done" /\ decoder = "TokenPair" /\ budget = MaxEdits - 1
    /\ \/ input[<<"txns">>].t = "absent" /\ result = MissingField("txns")
       \/ input[<<"txns", "h6">>].t = "absent" /\ result = MissingField("h6")
       \/ input[<<"txns", "m5", "sells">>].t = "absent" /\ result = MissingField("sells")

=============================================================================
